---- MODULE Spec2Model ----
(***************************************************************************)
(* mesh-cli: the credential cache (saveToken / getToken), SDK              *)
(* initialisation, the SIWE login sequence and the command handlers that   *)
(* use them.  One CLI invocation is one process: it starts with the        *)
(* environment of the shell, runs one command handler step by step (a step *)
(* ends at each awaited SDK call) and exits.  The file system and the      *)
(* clock outlive the invocations.                                          *)
(***************************************************************************)
EXTENDS Integers, Sequences, FiniteSets, TLC

(***************************************************************************)
(* Numbers.  Date.now() is about 1.7e12 and the validity window is         *)
(* 2592000000 ms; both are exact in a JS double but exceed the checker's   *)
(* integers, so a millisecond count is kept as two limbs hi * BASE + lo.   *)
(***************************************************************************)
MsPerSec == 1000
BASE == MsPerSec * MsPerSec
ThirtyDays == 30 * 24 * 60 * 60

\* bounds of the model
EpochHi == 1700000
MaxEra == 1
MaxTick == 1

Ms(h, l) == [hi |-> h, lo |-> l]
Add(a, b) == Ms(a.hi + b.hi + ((a.lo + b.lo) \div BASE), (a.lo + b.lo) % BASE)
\* n * 1000 for a second count n, exact because BASE = 1000 * 1000
SecToMs(n) == Ms(n \div MsPerSec, (n % MsPerSec) * MsPerSec)
Gt(a, b) == a.hi > b.hi \/ (a.hi = b.hi /\ a.lo > b.lo)
Window == SecToMs(ThirtyDays)

\* the clock readings Date.now() can give in the model
ClockValues ==
  { Ms(EpochHi + k * Window.hi, l) : k \in 0..MaxEra, l \in 0..MaxTick }

(***************************************************************************)
(* JS primitive values.  A string is either an atom (s names it) or a      *)
(* string of decimal digits (s = "digits", hi/lo give the number written). *)
(***************************************************************************)
Undefined == [ty |-> "undefined", s |-> "", hi |-> 0, lo |-> 0]
Null == [ty |-> "null", s |-> "", hi |-> 0, lo |-> 0]
TrueV == [ty |-> "boolean", s |-> "true", hi |-> 0, lo |-> 0]
StrV(a) == [ty |-> "string", s |-> a, hi |-> 0, lo |-> 0]
DigitsV(n) == [ty |-> "string", s |-> "digits", hi |-> n.hi, lo |-> n.lo]
NumV(n) == [ty |-> "number", s |-> "", hi |-> n.hi, lo |-> n.lo]
NaN == [ty |-> "number", s |-> "NaN", hi |-> 0, lo |-> 0]

\* ToNumber, as applied by the > operator to a non-number operand
ToNumber(p) ==
  CASE p.ty = "number" -> p
    [] p.ty = "undefined" -> NaN
    [] p.ty = "null" -> NumV(Ms(0, 0))
    [] p.ty = "boolean" -> NumV(Ms(0, 1))
    [] p.ty = "string" ->
         IF p.s = "digits" THEN NumV(Ms(p.hi, p.lo))
         ELSE IF p.s = "" THEN NumV(Ms(0, 0)) ELSE NaN

\* p > n for a number n: false whenever ToNumber(p) is NaN
JsGreater(p, n) ==
  LET x == ToNumber(p) IN x.s # "NaN" /\ Gt(Ms(x.hi, x.lo), n)

(***************************************************************************)
(* JSON texts are sequences of lexemes; JS values are primitives, flat     *)
(* objects over Keys, or flat arrays.                                      *)
(***************************************************************************)
KeyOrder == <<"token", "expiresAt", "action">>
Keys == {KeyOrder[i] : i \in 1..Len(KeyOrder)}

Punct(c) == [k |-> c, p |-> Undefined]
Lit(p) == [k |-> "val", p |-> p]
LB == Punct("{")
RB == Punct("}")
LSq == Punct("[")
RSq == Punct("]")
Colon == Punct(":")
Comma == Punct(",")
Ws == Punct("ws")
Junk == Punct("junk")

NoFields == [k \in Keys |-> Undefined]
PrimVal(p) == [ty |-> "prim", p |-> p, f |-> NoFields, a |-> <<>>]
ObjVal(f) == [ty |-> "object", p |-> Undefined, f |-> f, a |-> <<>>]
ArrVal(a) == [ty |-> "array", p |-> Undefined, f |-> NoFields, a |-> a]

SetMax(S) == CHOOSE x \in S : \A y \in S : y <= x

IsMembers(m) ==
  \/ Len(m) = 0
  \/ /\ Len(m) % 4 = 3
     /\ \A i \in 1..Len(m) :
          CASE i % 4 = 1 -> m[i].k = "val" /\ m[i].p.ty = "string" /\ m[i].p.s \in Keys
            [] i % 4 = 2 -> m[i].k = ":"
            [] i % 4 = 3 -> m[i].k = "val"
            [] OTHER -> m[i].k = ","

\* a repeated key keeps its last value
MemberFields(m) ==
  [k \in Keys |->
     LET at == {i \in 1..Len(m) : i % 4 = 1 /\ m[i].p.s = k}
     IN IF at = {} THEN Undefined ELSE m[SetMax(at) + 2].p]

IsElements(m) ==
  \/ Len(m) = 0
  \/ /\ Len(m) % 2 = 1
     /\ \A i \in 1..Len(m) : IF i % 2 = 1 THEN m[i].k = "val" ELSE m[i].k = ","

Elements(m) == [i \in 1..((Len(m) + 1) \div 2) |-> m[2 * i - 1].p]

Thrown == [ok |-> FALSE, v |-> PrimVal(Undefined)]
Parsed(v) == [ok |-> TRUE, v |-> v]

\* JSON.parse: ok = FALSE stands for the SyntaxError it throws
JSONparse(text) ==
  LET t == SelectSeq(text, LAMBDA x : x.k # "ws")
      n == Len(t)
      inner == SubSeq(t, 2, n - 1)
  IN CASE n = 1 /\ t[1].k = "val" -> Parsed(PrimVal(t[1].p))
       [] n >= 2 /\ t[1].k = "{" /\ t[n].k = "}" ->
            IF IsMembers(inner) THEN Parsed(ObjVal(MemberFields(inner))) ELSE Thrown
       [] n >= 2 /\ t[1].k = "[" /\ t[n].k = "]" ->
            IF IsElements(inner) THEN Parsed(ArrVal(Elements(inner))) ELSE Thrown
       [] OTHER -> Thrown

RECURSIVE StringifyFrom(_, _, _)
\* the members of f from key number i on; first = no member written yet
StringifyFrom(f, i, first) ==
  IF i > Len(KeyOrder) THEN <<>>
  ELSE IF f[KeyOrder[i]].ty = "undefined" THEN StringifyFrom(f, i + 1, first)
  ELSE (IF first THEN <<>> ELSE <<Comma>>)
       \o <<Lit(StrV(KeyOrder[i])), Colon, Lit(f[KeyOrder[i]])>>
       \o StringifyFrom(f, i + 1, FALSE)

RECURSIVE StringifyNoComma(_, _)
StringifyNoComma(f, i) ==
  IF i > Len(KeyOrder) THEN <<>>
  ELSE IF f[KeyOrder[i]].ty = "undefined" THEN StringifyNoComma(f, i + 1)
  ELSE <<Lit(StrV(KeyOrder[i])), Colon, Lit(f[KeyOrder[i]])>> \o StringifyNoComma(f, i + 1)

\* variant: the members are written without the separating commas
JSONstringify_NoComma(f) == <<LB>> \o StringifyNoComma(f, 1) \o <<RB>>

\* JSON.stringify(obj): members whose value is undefined are left out
JSONstringify(f) == <<LB>> \o StringifyFrom(f, 1, TRUE) \o <<RB>>

RECURSIVE PrettyFrom(_, _, _)
PrettyFrom(f, i, first) ==
  IF i > Len(KeyOrder) THEN <<>>
  ELSE IF f[KeyOrder[i]].ty = "undefined" THEN PrettyFrom(f, i + 1, first)
  ELSE (IF first THEN <<Ws>> ELSE <<Comma, Ws>>)
       \o <<Lit(StrV(KeyOrder[i])), Colon, Ws, Lit(f[KeyOrder[i]])>>
       \o PrettyFrom(f, i + 1, FALSE)

\* JSON.stringify(obj, null, 2): the same members, with white space
JSONstringifyPretty(f) ==
  LET body == PrettyFrom(f, 1, TRUE)
  IN IF body = <<>> THEN <<LB, RB>> ELSE <<LB>> \o body \o <<Ws, RB>>

(***************************************************************************)
(* The file system: the credential file, a request file and the default    *)
(* output file, with the directories that hold them.                       *)
(***************************************************************************)
TOKEN_DIR == "~/.mesh-cli"
TOKEN_FILE == "~/.mesh-cli/token.json"
RequestPath == "req.json"
BadRequestPath == "bad.json"
DefaultOutfile == "tmp/my.json"
Paths == {TOKEN_FILE, RequestPath, BadRequestPath, DefaultOutfile}

\* path.dirname
Dirname(p) ==
  CASE p = TOKEN_FILE -> TOKEN_DIR
    [] p = DefaultOutfile -> "tmp"
    [] OTHER -> "."

Absent == [exists |-> FALSE, content |-> <<>>]
File(text) == [exists |-> TRUE, content |-> text]

DEFAULT_API_URI == "http://localhost:8080"

\* values of the environment and of the options; "" is unset / not given
ApiKeys == {"apiK"}
GoodPrivateKeys == {"keyA", "keyB"}
PrivateKeys == GoodPrivateKeys \cup {"badkey"}
RemoteTokens == {StrV("jwtA"), StrV("jwtB")}
Nonces == {"n1", "n2"}

\* privateKeyToAccount(key).address; it throws on a key that is not 32 bytes of hex
Address(key) == IF key = "keyA" THEN "0xA" ELSE "0xB"

\* new URL(u) throws TypeError on a string that is not a URL
IsUrl(u) == u \in {DEFAULT_API_URI, "https://mesh.example", "https://other.example"}
Hostname(u) ==
  CASE u = DEFAULT_API_URI -> "localhost"
    [] u = "https://mesh.example" -> "mesh.example"
    [] OTHER -> "other.example"

\* a || b on strings
Or(a, b) == IF a # "" THEN a ELSE b

VARIABLES
  fs,       \* path -> [exists, content]
  dirs,     \* the directories that exist
  now,      \* the reading Date.now() gives
  env,      \* process.env of the running invocation
  cmd,      \* the command of the running invocation
  opts,     \* its options, after prompting
  pc,       \* where its handler stands: the SDK call it awaits, idle or done
  sdk,      \* the SDK client it holds
  calls,    \* the SDK methods and saveToken it has called, in order
  out,      \* what it has printed
  login,    \* locals of loginWithSIWE and of the login handler
  req,      \* the request object handed to the authorization call
  lastGet,  \* the getToken call of this invocation: what it read, when, what it returned
  saved,    \* the last saveToken: token, ttl, clock reading; stale once the file is rewritten
  fs0,      \* the credential file when the invocation started
  err,      \* the step of the handler that threw last, "" when none did
  main,     \* main(): where the process stands, its exit status, what its catch printed
  writer,   \* a saveToken of another process: its text and how much of it is written
  envKey    \* process.env.API_KEY as the last login left it at its exit; "" once a
            \* later handler has begun

vars == <<fs, dirs, now, env, cmd, opts, pc, sdk, calls, out, login, req, lastGet, saved, fs0,
          err, main, writer, envKey>>

\* ---- credential cache ------------------------------------------------

CredentialFields(token, expiresAt) ==
  [k \in Keys |-> CASE k = "token" -> token [] k = "expiresAt" -> expiresAt [] OTHER -> Undefined]

\* variant: the ttl is added as it is, in seconds
saveToken_Seconds(fsys, ds, token, expiresIn, t) ==
  LET expiresAt == Add(t, Ms(0, expiresIn))
  IN [dirs |-> ds \cup {TOKEN_DIR},
      fs |-> [fsys EXCEPT ![TOKEN_FILE] =
                File(JSONstringify(CredentialFields(token, NumV(expiresAt))))]]

\* variant: a credential file that exists is left as it is
saveToken_KeepExisting(fsys, ds, token, expiresIn, t) ==
  LET expiresAt == Add(t, SecToMs(expiresIn))
  IN [dirs |-> ds \cup {TOKEN_DIR},
      fs |-> IF fsys[TOKEN_FILE].exists THEN fsys
             ELSE [fsys EXCEPT ![TOKEN_FILE] =
                     File(JSONstringify(CredentialFields(token, NumV(expiresAt))))]]

\* saveToken: the directories and files after it
saveToken(fsys, ds, token, expiresIn, t) ==
  LET expiresAt == Add(t, SecToMs(expiresIn))
  IN [dirs |-> ds \cup {TOKEN_DIR},
      fs |-> [fsys EXCEPT ![TOKEN_FILE] =
                File(JSONstringify(CredentialFields(token, NumV(expiresAt))))]]

NoToken == [some |-> FALSE, data |-> PrimVal(Undefined)]

\* the property read data.expiresAt / data.token of a parsed value that is not null
Prop(v, k) == IF v.ty = "object" THEN v.f[k] ELSE Undefined

\* variant: a token is still returned in the millisecond it expires (>= for >)
getToken_AtExpiry(fsys, t) ==
  IF ~fsys[TOKEN_FILE].exists THEN NoToken
  ELSE LET r == JSONparse(fsys[TOKEN_FILE].content)
       IN IF ~r.ok THEN NoToken
          ELSE IF r.v.ty = "prim" /\ r.v.p.ty = "null" THEN NoToken
          ELSE IF JsGreater(Prop(r.v, "expiresAt"), t)
                  \/ ToNumber(Prop(r.v, "expiresAt")) = NumV(t)
          THEN [some |-> TRUE, data |-> r.v]
          ELSE NoToken

\* getToken: null on an absent file, on any exception (JSON.parse, or the
\* property read on null), and when data.expiresAt > Date.now() is false
getToken(fsys, t) ==
  IF ~fsys[TOKEN_FILE].exists THEN NoToken
  ELSE LET r == JSONparse(fsys[TOKEN_FILE].content)
       IN IF ~r.ok THEN NoToken
          ELSE IF r.v.ty = "prim" /\ r.v.p.ty = "null" THEN NoToken
          ELSE IF JsGreater(Prop(r.v, "expiresAt"), t) THEN [some |-> TRUE, data |-> r.v]
          ELSE NoToken

\* ---- SDK initialisation ----------------------------------------------

NoSdk == [kind |-> "none", apiKey |-> "", apiUri |-> "", key |-> "",
          jwtSet |-> FALSE, jwt |-> Undefined]
NoSave == [valid |-> FALSE, token |-> Undefined, ttl |-> 0, at |-> Ms(0, 0)]
NoGet == [called |-> FALSE, file |-> Absent, at |-> Ms(0, 0), some |-> FALSE,
          data |-> PrimVal(Undefined), saved |-> NoSave]
Failed(msg) == [ok |-> FALSE, err |-> msg, sdk |-> NoSdk, get |-> NoGet]

initSDKWithApiKey(apiKey, apiUri) ==
  IF apiKey = "" THEN Failed("API key is required")
  ELSE [ok |-> TRUE, err |-> "",
        sdk |-> [NoSdk EXCEPT !.kind = "MeshLite", !.apiKey = apiKey, !.apiUri = apiUri],
        get |-> NoGet]

\* variant: the cached token is read but not set on the client
initSDKWithPrivateKey_NoCache(privateKey, apiKey, apiUri, fsys, t, sv) ==
  IF privateKey = "" THEN Failed("Private key is required")
  ELSE IF privateKey \notin GoodPrivateKeys THEN Failed("invalid private key")
  ELSE LET tokenData == getToken(fsys, t)
       IN [ok |-> TRUE, err |-> "",
           sdk |-> [NoSdk EXCEPT !.kind = "Mesh", !.apiKey = apiKey, !.apiUri = apiUri,
                                 !.key = privateKey],
           get |-> [called |-> TRUE, file |-> fsys[TOKEN_FILE], at |-> t,
                    some |-> tokenData.some, data |-> tokenData.data, saved |-> sv]]

\* variant: the cached token is set only on a session without an API key
initSDKWithPrivateKey_UnlessApiKey(privateKey, apiKey, apiUri, fsys, t, sv) ==
  IF privateKey = "" THEN Failed("Private key is required")
  ELSE IF privateKey \notin GoodPrivateKeys THEN Failed("invalid private key")
  ELSE LET tokenData == getToken(fsys, t)
           mesh == [NoSdk EXCEPT !.kind = "Mesh", !.apiKey = apiKey, !.apiUri = apiUri,
                                 !.key = privateKey]
       IN [ok |-> TRUE, err |-> "",
           sdk |-> IF tokenData.some /\ apiKey = ""
                   THEN [mesh EXCEPT !.jwtSet = TRUE, !.jwt = Prop(tokenData.data, "token")]
                   ELSE mesh,
           get |-> [called |-> TRUE, file |-> fsys[TOKEN_FILE], at |-> t,
                    some |-> tokenData.some, data |-> tokenData.data, saved |-> sv]]

initSDKWithPrivateKey(privateKey, apiKey, apiUri, fsys, t, sv) ==
  IF privateKey = "" THEN Failed("Private key is required")
  ELSE IF privateKey \notin GoodPrivateKeys THEN Failed("invalid private key")
  ELSE LET tokenData == getToken(fsys, t)
           mesh == [NoSdk EXCEPT !.kind = "Mesh", !.apiKey = apiKey, !.apiUri = apiUri,
                                 !.key = privateKey]
       IN [ok |-> TRUE, err |-> "",
           sdk |-> IF tokenData.some
                   THEN [mesh EXCEPT !.jwtSet = TRUE, !.jwt = Prop(tokenData.data, "token")]
                   ELSE mesh,
           get |-> [called |-> TRUE, file |-> fsys[TOKEN_FILE], at |-> t,
                    some |-> tokenData.some, data |-> tokenData.data, saved |-> sv]]

\* variant: the API key is preferred whenever it is set
initSDK_ApiKeyFirst(e, fsys, t, sv) ==
  LET apiUri == Or(e.API_URI, DEFAULT_API_URI)
  IN IF e.API_KEY # "" THEN initSDKWithApiKey(e.API_KEY, apiUri)
     ELSE IF e.PRIVATE_KEY # "" THEN initSDKWithPrivateKey(e.PRIVATE_KEY, e.API_KEY, apiUri, fsys, t, sv)
     ELSE Failed("Either API_KEY or PRIVATE_KEY must be provided in environment variables")

initSDK(e, fsys, t, sv) ==
  LET apiUri == Or(e.API_URI, DEFAULT_API_URI)
  IN IF e.API_KEY # "" /\ e.PRIVATE_KEY = "" THEN initSDKWithApiKey(e.API_KEY, apiUri)
     ELSE IF e.PRIVATE_KEY # "" THEN initSDKWithPrivateKey(e.PRIVATE_KEY, e.API_KEY, apiUri, fsys, t, sv)
     ELSE Failed("Either API_KEY or PRIVATE_KEY must be provided in environment variables")

\* ---- initial states ---------------------------------------------------

SoonExpiry == Ms(EpochHi, 1)
LateExpiry == Ms(EpochHi + Window.hi, 1)
OldToken == StrV("jwtOld")

\* what the credential file may hold before the first command: nothing, a
\* credential written by an earlier login, or content damaged or edited by hand
InitialTokenFiles ==
  {Absent, File(<<>>), File(<<Junk>>), File(<<Lit(Null)>>),
   File(<<Lit(NumV(LateExpiry))>>), File(<<LSq, Lit(NumV(LateExpiry)), RSq>>),
   File(<<LB, Lit(StrV("token")), Colon>>)}
  \cup {File(JSONstringify(CredentialFields(OldToken, NumV(e)))) : e \in {SoonExpiry, LateExpiry}}
  \cup {File(JSONstringifyPretty(CredentialFields(OldToken, NumV(LateExpiry))))}
  \cup {File(JSONstringify(CredentialFields(t, e))) :
          t \in {Undefined, NumV(Ms(0, 5))}, e \in {NumV(LateExpiry)}}
  \cup {File(JSONstringify(CredentialFields(OldToken, e))) :
          e \in {Undefined, Null, StrV("soon"), DigitsV(LateExpiry)}}

RequestFields == [k \in Keys |-> IF k = "action" THEN StrV("read") ELSE Undefined]

NoOpts == [privateKey |-> "", apiKey |-> "", apiUri |-> "", address |-> <<>>,
           file |-> "", json |-> <<>>, outfile |-> "", force |-> FALSE,
           confirm |-> FALSE, bucket |-> "", asked |-> FALSE, name |-> "",
           active |-> "undefined"]
NoLogin == [method |-> "", nonce |-> "", msg |-> [domain |-> "", address |-> "", uri |-> "",
            version |-> "", nonce |-> ""], signed |-> FALSE, ret |-> Undefined, failedAt |-> "",
            prompted |-> FALSE, account |-> ""]
\* main before the process starts; code is the exit status once stage = "exit"
NoMain == [stage |-> "shell", code |-> 0, stderr |-> "", thrown |-> ""]
NoWriter ==
  [active |-> FALSE, at |-> Ms(0, 0), text |-> <<>>, done |-> 0, partial |-> FALSE, old |-> <<>>]

Init ==
  /\ \E t \in InitialTokenFiles :
       fs = [p \in Paths |->
               CASE p = TOKEN_FILE -> t
                 [] p = RequestPath -> File(JSONstringifyPretty(RequestFields))
                 [] p = BadRequestPath -> File(<<LB, Junk>>)
                 [] OTHER -> Absent]
  /\ dirs = {"."} \cup (IF fs[TOKEN_FILE].exists THEN {TOKEN_DIR} ELSE {})
  /\ now = Ms(EpochHi, 0)
  /\ env = [API_KEY |-> "", PRIVATE_KEY |-> "", API_URI |-> "", PUBLIC_KEY |-> <<>>]
  /\ cmd = "none"
  /\ opts = NoOpts
  /\ pc = "idle"
  /\ sdk = NoSdk
  /\ calls = <<>>
  /\ out = <<>>
  /\ login = NoLogin
  /\ req = PrimVal(Undefined)
  /\ lastGet = NoGet
  /\ saved = NoSave
  /\ fs0 = fs[TOKEN_FILE]
  /\ err = ""
  /\ main = NoMain
  /\ writer = NoWriter
  /\ envKey = ""

\* ---- the clock ---------------------------------------------------------

\* Date.now() is read by getToken, when an invocation starts, and by saveToken,
\* so the clock is moved only where one of the two comes next
Tick ==
  /\ pc \in {"idle", "authenticateSiWe"}
  /\ \E t \in ClockValues : Gt(t, now) /\ now' = t
  /\ UNCHANGED <<fs, dirs, env, cmd, opts, pc, sdk, calls, out, login, req, lastGet, saved, fs0,
                 err, main, writer, envKey>>

\* ---- a CLI invocation --------------------------------------------------

Env(a, k, u) == [API_KEY |-> a, PRIVATE_KEY |-> k, API_URI |-> u, PUBLIC_KEY |-> <<>>]
\* process.env as the shell and the .env files give it
Environments ==
  {Env("", "", ""), Env("apiK", "", ""), Env("", "keyA", ""), Env("apiK", "keyA", ""),
   Env("", "badkey", ""), Env("", "keyA", "https://mesh.example"),
   Env("", "keyA", "not a url")}


Call(m) == [m |-> m, jwtSet |-> sdk.jwtSet, jwt |-> sdk.jwt, arg |-> ""]
Names(cs) == [i \in DOMAIN cs |-> cs[i].m]

\* a new process: nothing is left of the previous invocation but the files
Begin(c, o) ==
  /\ pc = "idle"
  /\ main.stage = "parse"
  /\ UNCHANGED <<main, writer>>
  /\ envKey' = ""
  /\ cmd' = c
  /\ opts' = o
  /\ fs0' = fs[TOKEN_FILE]

\* ---- auth login (enforcer.ts 19-144) ------------------------------------

LoginOpt(k, a, u) == [NoOpts EXCEPT !.privateKey = k, !.apiKey = a, !.apiUri = u]
LoginOptions ==
  {LoginOpt("", "", ""), LoginOpt("keyA", "", ""),
   LoginOpt("badkey", "", ""), LoginOpt("keyA", "", "https://other.example"),
   LoginOpt("keyA", "apiK", ""), LoginOpt("", "apiK", ""),
   LoginOpt("", "apiK", "https://other.example")}

\* the options after the prompts: a method is asked for only when neither key
\* was given, and the key prompt accepts no blank answer
Prompted(o, method, key) ==
  IF o.privateKey # "" \/ o.apiKey # "" THEN o
  ELSE IF method = "siwe" THEN [o EXCEPT !.privateKey = key]
  ELSE [o EXCEPT !.apiKey = key]

\* variant: the failed step is left pending, to be tried again
LoginFailed_Retry(at) ==
  /\ out' = Append(out, "Login failed")
  /\ login' = [login EXCEPT !.failedAt = at]
  /\ err' = at
  /\ pc' = pc

LoginFailed(at) ==
  /\ out' = Append(out, "Login failed")
  /\ login' = [login EXCEPT !.failedAt = at]
  /\ err' = at
  /\ pc' = "done"

AuthLogin(given, e, method, key) ==
  LET o == Prompted(given, method, key)
      asked == given.privateKey = "" /\ given.apiKey = ""
      apiUri == Or(o.apiUri, Or(e.API_URI, DEFAULT_API_URI))
  IN /\ Begin("login", o)
     /\ calls' = <<>>
     /\ req' = PrimVal(Undefined)
     /\ UNCHANGED <<fs, dirs, now, saved>>
     /\ IF o.privateKey # ""
        THEN LET r == initSDKWithPrivateKey(o.privateKey, o.apiKey, apiUri, fs, now, saved)
             IN /\ env' = e
                /\ sdk' = r.sdk
                /\ lastGet' = r.get
                /\ err' = IF r.ok THEN "" ELSE "init"
                /\ IF r.ok
                   THEN /\ login' = [NoLogin EXCEPT !.method = "siwe", !.prompted = asked]
                        /\ out' = <<>>
                        /\ pc' = "requestNonce"
                   ELSE /\ login' = [NoLogin EXCEPT !.method = "siwe", !.failedAt = "init",
                                                    !.prompted = asked]
                        /\ out' = <<"Login failed">>
                        /\ pc' = "done"
        ELSE IF o.apiKey # ""
        THEN LET e2 == [e EXCEPT !.API_KEY = o.apiKey, !.API_URI = apiUri]
                 r == initSDK(e2, fs, now, saved)
             IN /\ env' = e2
                /\ sdk' = r.sdk
                /\ lastGet' = r.get
                /\ err' = IF r.ok THEN "" ELSE "init"
                /\ IF r.ok
                   THEN /\ login' = [NoLogin EXCEPT !.method = "apiKey", !.prompted = asked]
                        /\ out' = <<>>
                        /\ pc' = "accountDetail"
                   ELSE /\ login' = [NoLogin EXCEPT !.method = "apiKey", !.failedAt = "init",
                                                    !.prompted = asked]
                        /\ out' = <<"Login failed">>
                        /\ pc' = "done"
        ELSE /\ env' = e
             /\ sdk' = NoSdk
             /\ lastGet' = NoGet
             /\ login' = [NoLogin EXCEPT !.prompted = asked]
             /\ err' = ""
             /\ out' = <<"Either private key or API key must be provided">>
             /\ pc' = "done"

\* ---- loginWithSIWE (sdk.ts 136-160), one action per awaited call -----------

\* variant: the message is built with a nonce kept from before
SiweMessageParams_StaleNonce(apiUri, address, nonce) ==
  [domain |-> Hostname(apiUri), address |-> address, uri |-> apiUri, version |-> "1",
   nonce |-> "n1"]

\* siweMessageParams (chainId and issuedAt left out)
SiweMessageParams(apiUri, address, nonce) ==
  [domain |-> Hostname(apiUri), address |-> address, uri |-> apiUri, version |-> "1",
   nonce |-> nonce]

\* requestNonce({account_address}) returns, and the message parameters are built
RequestNonce(r) ==
  /\ cmd = "login" /\ pc = "requestNonce"
  /\ calls' = Append(calls, Call("requestNonce"))
  /\ UNCHANGED <<fs, dirs, now, env, cmd, opts, sdk, req, lastGet, saved, fs0, main, writer, envKey>>
  /\ IF r = "throw" THEN LoginFailed("requestNonce")
     ELSE LET apiUri == Or(env.API_URI, DEFAULT_API_URI)
          IN IF ~IsUrl(apiUri)
             THEN /\ out' = Append(out, "Login failed")
                  /\ login' = [login EXCEPT !.nonce = r, !.failedAt = "url",
                                            !.account = Address(sdk.key)]
                  /\ err' = "url"
                  /\ pc' = "done"
             ELSE /\ login' = [login EXCEPT !.nonce = r, !.account = Address(sdk.key),
                                 !.msg = SiweMessageParams(apiUri, Address(sdk.key), r)]
                  /\ out' = out
                  /\ err' = err
                  /\ pc' = "signSiWeMessage"

SignSiWeMessage(ok) ==
  /\ cmd = "login" /\ pc = "signSiWeMessage"
  /\ calls' = Append(calls, Call("signSiWeMessage"))
  /\ UNCHANGED <<fs, dirs, now, env, cmd, opts, sdk, req, lastGet, saved, fs0, main, writer, envKey>>
  /\ IF ok
     THEN /\ login' = [login EXCEPT !.signed = TRUE]
          /\ out' = out
          /\ err' = err
          /\ pc' = "authenticateSiWe"
     ELSE LoginFailed("signSiWeMessage")

\* variant: the token file is written before authenticateSiWe is called
AuthenticateSiWe_SaveFirst(ok, token) ==
  /\ cmd = "login" /\ pc = "authenticateSiWe"
  /\ UNCHANGED <<now, env, cmd, opts, sdk, req, lastGet, fs0, main, writer, envKey>>
  /\ LET w == saveToken(fs, dirs, token, ThirtyDays, now)
     IN /\ calls' = calls \o <<Call("saveToken"), Call("authenticateSiWe")>>
        /\ fs' = w.fs
        /\ dirs' = w.dirs
        /\ saved' = [valid |-> TRUE, token |-> token, ttl |-> ThirtyDays, at |-> now]
        /\ IF ok
           THEN /\ login' = [login EXCEPT !.ret = token]
                /\ out' = Append(out, "Login successful")
                /\ err' = err
                /\ pc' = "accountDetail"
           ELSE LoginFailed("authenticateSiWe")

\* variant: saveToken runs whether or not authenticateSiWe returned a token
AuthenticateSiWe_SaveAnyway(ok, token) ==
  /\ cmd = "login" /\ pc = "authenticateSiWe"
  /\ UNCHANGED <<now, env, cmd, opts, sdk, req, lastGet, fs0, main, writer, envKey>>
  /\ LET w == saveToken(fs, dirs, IF ok THEN token ELSE Undefined, ThirtyDays, now)
     IN /\ calls' = calls \o <<Call("authenticateSiWe"), Call("saveToken")>>
        /\ fs' = w.fs
        /\ dirs' = w.dirs
        /\ saved' = [valid |-> ok, token |-> token, ttl |-> ThirtyDays, at |-> now]
        /\ IF ok
           THEN /\ login' = [login EXCEPT !.ret = token]
                /\ out' = Append(out, "Login successful")
                /\ err' = err
                /\ pc' = "accountDetail"
           ELSE LoginFailed("authenticateSiWe")

\* the token the service issues to an account: each account has its own
TokenFor(address) == IF address = "0xA" THEN StrV("jwtA") ELSE StrV("jwtB")

\* authenticateSiWe returns; on a token, saveToken and the return to the handler
AuthenticateSiWe(ok, token) ==
  /\ cmd = "login" /\ pc = "authenticateSiWe"
  /\ UNCHANGED <<now, env, cmd, opts, sdk, req, lastGet, fs0, main, writer, envKey>>
  /\ IF ok
     THEN LET w == saveToken(fs, dirs, token, ThirtyDays, now)
          IN /\ calls' = calls \o <<Call("authenticateSiWe"), Call("saveToken")>>
             /\ fs' = w.fs
             /\ dirs' = w.dirs
             /\ saved' = [valid |-> TRUE, token |-> token, ttl |-> ThirtyDays, at |-> now]
             /\ login' = [login EXCEPT !.ret = token]
             /\ out' = Append(out, "Login successful")
             /\ err' = err
             /\ pc' = "accountDetail"
     ELSE /\ calls' = Append(calls, Call("authenticateSiWe"))
          /\ UNCHANGED <<fs, dirs, saved>>
          /\ LoginFailed("authenticateSiWe")

\* ---- accountDetail, the last call of login, account and account-exists ----

AccountDetail(ok) ==
  /\ pc = "accountDetail"
  /\ calls' = Append(calls, Call("accountDetail"))
  /\ out' = CASE cmd = "login" /\ login.method = "siwe" /\ ~ok ->
                   Append(out, "Could not fetch account details")
              [] cmd = "login" /\ login.method = "apiKey" ->
                   Append(out, IF ok THEN "Login successful"
                                     ELSE "API key set, but could not verify account details")
              [] cmd = "account" ->
                   Append(out, IF ok THEN "Account details fetched successfully"
                                     ELSE "Failed to fetch account details")
              [] cmd = "account-exists" /\ ~ok ->
                   Append(out, "Account exists but could not fetch details")
              [] OTHER -> out
  /\ err' = IF ok THEN err ELSE "accountDetail"
  /\ pc' = "done"
  /\ UNCHANGED <<fs, dirs, now, env, cmd, opts, sdk, login, req, lastGet, saved, fs0, main, writer, envKey>>

\* ---- auth account (enforcer.ts 147-189) -----------------------------------

AuthAccount(e) ==
  LET r == initSDK(e, fs, now, saved)
  IN /\ Begin("account", NoOpts)
     /\ env' = e
     /\ sdk' = r.sdk
     /\ lastGet' = r.get
     /\ calls' = <<>>
     /\ req' = PrimVal(Undefined)
     /\ login' = NoLogin
     /\ err' = IF r.ok THEN "" ELSE "init"
     /\ out' = IF r.ok THEN <<>> ELSE <<"Failed to fetch account details", r.err>>
     /\ pc' = IF r.ok THEN "accountDetail" ELSE "done"
     /\ UNCHANGED <<fs, dirs, now, saved>>

\* ---- auth account-exists (enforcer.ts 424-470) ----------------------------

Addresses == {<<"0", "x", "a">>, <<"0", "X", "a">>, <<"a", "0", "x">>, <<"0">>, <<>>}

\* variant: the prefix is compared without regard to case
StartsWith0x_AnyCase(a) == Len(a) >= 2 /\ a[1] = "0" /\ a[2] \in {"x", "X"}

\* String.prototype.startsWith('0x')
StartsWith0x(a) == Len(a) >= 2 /\ a[1] = "0" /\ a[2] = "x"

AccountExists(a, e) ==
  LET r == initSDK(e, fs, now, saved)
  IN /\ Begin("account-exists", [NoOpts EXCEPT !.address = a])
     /\ env' = e
     /\ sdk' = r.sdk
     /\ lastGet' = r.get
     /\ calls' = <<>>
     /\ req' = PrimVal(Undefined)
     /\ login' = NoLogin
     /\ err' = IF r.ok THEN "" ELSE "init"
     /\ UNCHANGED <<fs, dirs, now, saved>>
     /\ IF ~r.ok
        THEN /\ out' = <<"Failed to check account", r.err>>
             /\ pc' = "done"
        ELSE IF ~StartsWith0x(a)
        THEN /\ out' = <<"Invalid address format", "Address must start with 0x">>
             /\ pc' = "done"
        ELSE /\ out' = <<>>
             /\ pc' = "accountExists"

AccountExistsCall(r) ==
  /\ cmd = "account-exists" /\ pc = "accountExists"
  /\ calls' = Append(calls, Call("accountExists"))
  /\ out' = CASE r = "throw" -> Append(out, "Failed to check account")
              [] r = "yes" -> out \o <<"Account check completed", "Account exists">>
              [] OTHER -> out \o <<"Account check completed", "Account does not exist">>
  /\ err' = IF r = "throw" THEN "accountExists" ELSE err
  /\ pc' = IF r = "yes" THEN "accountDetail" ELSE "done"
  /\ UNCHANGED <<fs, dirs, now, env, cmd, opts, sdk, login, req, lastGet, saved, fs0, main, writer, envKey>>

\* ---- auth authorize / authorize-batch (authorization.ts) -----------------

GoodJson == JSONstringify(RequestFields)
BadJson == <<LB, Junk>>
AuthzOpt(f, j, w) == [NoOpts EXCEPT !.file = f, !.json = j, !.outfile = w]
AuthorizeOptions ==
  {AuthzOpt("", <<>>, ""), AuthzOpt("", <<>>, "true"),
   AuthzOpt(RequestPath, <<>>, ""), AuthzOpt(RequestPath, <<>>, "true"),
   AuthzOpt(RequestPath, <<>>, TOKEN_FILE), AuthzOpt("", GoodJson, ""),
   AuthzOpt("", GoodJson, "true"), AuthzOpt("", GoodJson, TOKEN_FILE),
   AuthzOpt("missing.json", <<>>, "true"), AuthzOpt(BadRequestPath, <<>>, ""),
   AuthzOpt("", BadJson, "true"), AuthzOpt(RequestPath, BadJson, ""),
   AuthzOpt(BadRequestPath, GoodJson, "")}

FileAt(fsys, p) == IF p \in Paths THEN fsys[p] ELSE Absent

\* fs.readFileSync(p, 'utf8') then JSON.parse; ok = FALSE when either throws
ReadJson(fsys, p) ==
  IF ~FileAt(fsys, p).exists THEN Thrown ELSE JSONparse(FileAt(fsys, p).content)

\* variant: a request read from a file is tagged with a member of its own
RequestData_Tagged(fsys, o) ==
  IF o.file # ""
  THEN LET r == ReadJson(fsys, o.file)
       IN [given |-> TRUE, from |-> "file",
           r |-> IF r.ok /\ r.v.ty = "object"
                 THEN Parsed(ObjVal([r.v.f EXCEPT !["token"] = StrV("file")]))
                 ELSE r]
  ELSE IF o.json # <<>> THEN [given |-> TRUE, from |-> "json", r |-> JSONparse(o.json)]
  ELSE [given |-> FALSE, from |-> "", r |-> Thrown]

\* variant: --json is looked at before --file
RequestData_JsonFirst(fsys, o) ==
  IF o.json # <<>> THEN [given |-> TRUE, from |-> "json", r |-> JSONparse(o.json)]
  ELSE IF o.file # "" THEN [given |-> TRUE, from |-> "file", r |-> ReadJson(fsys, o.file)]
  ELSE [given |-> FALSE, from |-> "", r |-> Thrown]

\* the request data: given = an input option was present; r = the parse result
RequestData(fsys, o) ==
  IF o.file # "" THEN [given |-> TRUE, from |-> "file", r |-> ReadJson(fsys, o.file)]
  ELSE IF o.json # <<>> THEN [given |-> TRUE, from |-> "json", r |-> JSONparse(o.json)]
  ELSE [given |-> FALSE, from |-> "", r |-> Thrown]

ValidateMethod(c) == IF c = "authorize" THEN "validateAuthorization" ELSE "validateAuthorizations"
ValidateSuccess(c) ==
  IF c = "authorize" THEN "Authorization validated" ELSE "Batch authorization validated"
ValidateFailure(c) ==
  IF c = "authorize" THEN "Authorization validation failed"
  ELSE "Batch authorization validation failed"

Authorize(c, o, e) ==
  LET d == RequestData(fs, o)
      r == initSDK(e, fs, now, saved)
  IN /\ c \in {"authorize", "authorize-batch"}
     /\ Begin(c, o)
     /\ env' = e
     /\ calls' = <<>>
     /\ login' = NoLogin
     /\ UNCHANGED <<fs, dirs, now, saved>>
     /\ IF ~d.given
        THEN /\ out' = <<"No input provided. Use --file or --json option.">>
             /\ err' = ""
             /\ sdk' = NoSdk /\ lastGet' = NoGet /\ req' = PrimVal(Undefined)
             /\ pc' = "done"
        ELSE IF ~d.r.ok
        THEN /\ out' = <<IF d.from = "file" THEN "Failed to read or parse file"
                                           ELSE "Failed to parse JSON string">>
             /\ err' = "input"
             /\ sdk' = NoSdk /\ lastGet' = NoGet /\ req' = PrimVal(Undefined)
             /\ pc' = "done"
        ELSE /\ sdk' = r.sdk
             /\ lastGet' = r.get
             /\ err' = IF r.ok THEN "" ELSE "init"
             /\ IF r.ok
                THEN /\ req' = d.r.v
                     /\ out' = <<>>
                     /\ pc' = ValidateMethod(c)
                ELSE /\ req' = PrimVal(Undefined)
                     /\ out' = <<ValidateFailure(c), r.err>>
                     /\ pc' = "done"

Responses == {[k \in Keys |-> IF k = "action" THEN StrV(a) ELSE Undefined] : a \in {"allow"}}

\* variant: the default path whatever was given
OutPath_Default(o) == DefaultOutfile

\* options.outfile === true ? 'tmp/my.json' : options.outfile
OutPath(o) == IF o.outfile = "true" THEN DefaultOutfile ELSE o.outfile

Validate(ok, response) ==
  /\ cmd \in {"authorize", "authorize-batch"} /\ pc = ValidateMethod(cmd)
  /\ calls' = Append(calls, Call(ValidateMethod(cmd)))
  /\ pc' = "done"
  /\ UNCHANGED <<now, env, cmd, opts, sdk, login, req, lastGet, fs0, main, writer, envKey>>
  /\ err' = IF ok THEN err ELSE ValidateMethod(cmd)
  /\ IF ~ok
     THEN /\ out' = Append(out, ValidateFailure(cmd))
          /\ UNCHANGED <<fs, dirs, saved>>
     ELSE IF opts.outfile = ""
     THEN /\ out' = Append(out, ValidateSuccess(cmd))
          /\ UNCHANGED <<fs, dirs, saved>>
     ELSE /\ out' = out \o <<ValidateSuccess(cmd), "Response saved">>
          /\ dirs' = dirs \cup {Dirname(OutPath(opts))}
          /\ fs' = [fs EXCEPT ![OutPath(opts)] = File(JSONstringifyPretty(response))]
          /\ saved' = IF OutPath(opts) = TOKEN_FILE THEN NoSave ELSE saved

\* ---- os download-file (object-storage.ts 359-439) --------------------------

OutputPaths == {DefaultOutfile, TOKEN_FILE}
DownloadBodies == {<<Junk>>}

DownloadFile(path, e) ==
  LET r == initSDK(e, fs, now, saved)
  IN /\ Begin("download-file", [NoOpts EXCEPT !.outfile = path])
     /\ env' = e
     /\ sdk' = r.sdk
     /\ lastGet' = r.get
     /\ calls' = <<>>
     /\ req' = PrimVal(Undefined)
     /\ login' = NoLogin
     /\ err' = IF r.ok THEN "" ELSE "init"
     /\ out' = IF r.ok THEN <<>> ELSE <<r.err>>
     /\ pc' = IF r.ok THEN "downloadEncryptedFile" ELSE "done"
     /\ UNCHANGED <<fs, dirs, now, saved>>

\* the response is written as it is; writeFileSync throws when the directory is missing
DownloadEncryptedFile(ok, body) ==
  /\ cmd = "download-file" /\ pc = "downloadEncryptedFile"
  /\ calls' = Append(calls, Call("downloadEncryptedFile"))
  /\ pc' = "done"
  /\ UNCHANGED <<dirs, now, env, cmd, opts, sdk, login, req, lastGet, fs0, main, writer, envKey>>
  /\ IF ok /\ Dirname(opts.outfile) \in dirs
     THEN /\ fs' = [fs EXCEPT ![opts.outfile] = File(body)]
          /\ saved' = IF opts.outfile = TOKEN_FILE THEN NoSave ELSE saved
          /\ out' = Append(out, "File downloaded successfully")
          /\ err' = err
     ELSE /\ out' = Append(out, "Error")
          /\ err' = IF ok THEN "writeFileSync" ELSE "downloadEncryptedFile"
          /\ UNCHANGED <<fs, saved>>

\* ---- the handlers that make one SDK call -----------------------------------

\* what every handler does first: a new process with its environment
Handler(c, o, e) ==
  /\ Begin(c, o)
  /\ env' = e
  /\ calls' = <<>>
  /\ req' = PrimVal(Undefined)
  /\ login' = NoLogin
  /\ UNCHANGED <<fs, dirs, now, saved>>

\* variant: initSDK is awaited outside the try block of the handler
InitThenCall_Uncaught(r, m) ==
  /\ sdk' = r.sdk
  /\ lastGet' = r.get
  /\ err' = IF r.ok THEN "" ELSE "init"
  /\ out' = <<>>
  /\ pc' = IF r.ok THEN m ELSE "thrown"

\* const sdk = await initSDK(); then the handler awaits the SDK method m; an
\* error of initSDK goes to the catch of the handler, which prints it
InitThenCall(r, m) ==
  /\ sdk' = r.sdk
  /\ lastGet' = r.get
  /\ err' = IF r.ok THEN "" ELSE "init"
  /\ out' = IF r.ok THEN <<>> ELSE <<"Error:", r.err>>
  /\ pc' = IF r.ok THEN m ELSE "done"

\* the handler returns before initSDK, having printed msg
ReturnEarly(msg) ==
  /\ sdk' = NoSdk
  /\ lastGet' = NoGet
  /\ err' = ""
  /\ out' = <<msg>>
  /\ pc' = "done"

EnforcerMethod(c) ==
  CASE c = "create-api-key" -> "createAPIKey"
    [] c = "list-api-keys" -> "listAccountAPIKeys"
    [] c = "deactivate-api-key" -> "deactivateAPIKey"
    [] c = "activate-api-key" -> "activateAPIKey"
    [] c = "delete-api-key" -> "deleteAPIKey"
    [] c = "terms" -> "getTerms"
    [] c = "register" -> "registerAccount"
    [] OTHER -> ""

AdminMethod(c) ==
  CASE c = "list-tenants" -> "listTenants"
    [] c = "list-roles" -> "listRoles"
    [] c = "list-groups" -> "listGroups"
    [] c = "get-tenant" -> "getTenant"
    [] c = "create-tenant" -> "createTenant"
    [] OTHER -> ""

ObjectStoreMethod(c) ==
  CASE c = "create-access-grant" -> "createAccessGrant"
    [] c = "create-bucket" -> "createEncryptedBucket"
    [] c = "list-buckets" -> "listEncryptedBuckets"
    [] c = "upload-file" -> "uploadEncryptedFile"
    [] c = "list-files" -> "listEncryptedFiles"
    [] c = "delete-file" -> "deleteEncryptedFile"
    [] c = "copy-file" -> "copyEncryptedFile"
    [] c = "move-file" -> "moveEncryptedFile"
    [] c = "get-file-metadata" -> "getFileMetadata"
    [] c = "get-encrypted-file-metadata" -> "getEncryptedFileMetadata"
    [] c = "get-account-size" -> "getAccountFileBytes"
    [] OTHER -> ""

EnforcerCommands ==
  {"create-api-key", "list-api-keys", "deactivate-api-key", "activate-api-key", "terms"}
AdminCommands == {"list-tenants", "list-roles", "list-groups", "get-tenant", "create-tenant"}
ObjectStoreCommands ==
  {"create-access-grant", "create-bucket", "list-buckets", "copy-file", "move-file",
   "get-file-metadata", "get-encrypted-file-metadata", "get-account-size"}

\* auth create-api-key, list-api-keys, deactivate-api-key, activate-api-key, terms
EnforcerCommand(c, e) ==
  /\ c \in EnforcerCommands
  /\ Handler(c, NoOpts, e)
  /\ InitThenCall(initSDK(e, fs, now, saved), EnforcerMethod(c))

\* admin list-tenants, list-roles, list-groups, get-tenant, create-tenant
AdminCommand(c, e) ==
  /\ c \in AdminCommands
  /\ Handler(c, NoOpts, e)
  /\ InitThenCall(initSDK(e, fs, now, saved), AdminMethod(c))

\* the os commands that prompt for what is missing, call initSDK and one method
ObjectStoreCommand(c, e) ==
  /\ c \in ObjectStoreCommands
  /\ Handler(c, NoOpts, e)
  /\ InitThenCall(initSDK(e, fs, now, saved), ObjectStoreMethod(c))

\* auth delete-api-key and os delete-file: without --force the deletion is
\* confirmed first, and the handler returns when it is not
\* variant: the deletion goes on whatever the answer
Confirmed_Always(force, confirm) == TRUE

\* if (!options.force) { confirm = prompt; if (!confirm) return }
Confirmed(force, confirm) == force \/ confirm

DeleteCommand(c, force, confirm, e) ==
  /\ c \in {"delete-api-key", "delete-file"}
  /\ Handler(c, [NoOpts EXCEPT !.force = force, !.asked = ~force,
                               !.confirm = ~force /\ confirm], e)
  /\ IF ~Confirmed(force, confirm) THEN ReturnEarly("Deletion cancelled")
     ELSE InitThenCall(initSDK(e, fs, now, saved),
                       IF c = "delete-file" THEN ObjectStoreMethod(c) ELSE EnforcerMethod(c))

\* os upload-file: the file is looked for before anything else
UploadFile(path, e) ==
  /\ Handler("upload-file", [NoOpts EXCEPT !.file = path], e)
  /\ IF ~FileAt(fs, path).exists THEN ReturnEarly("Error: File not found:")
     ELSE InitThenCall(initSDK(e, fs, now, saved), ObjectStoreMethod("upload-file"))

\* os list-files: without --bucket the address of the signer is the bucket,
\* and the API-key client has no signer
ListFiles(bucket, e) ==
  LET r == initSDK(e, fs, now, saved)
  IN /\ Handler("list-files", [NoOpts EXCEPT !.bucket = bucket], e)
     /\ IF r.ok /\ bucket = "" /\ r.sdk.kind # "Mesh"
        THEN /\ sdk' = r.sdk
             /\ lastGet' = r.get
             /\ err' = ""
             /\ out' = <<"Bucket name is required">>
             /\ pc' = "done"
        ELSE InitThenCall(r, ObjectStoreMethod("list-files"))

PublicKeys == {<<>>, <<"a", "0", "x">>, <<"0", "x", "a">>}

\* register account: PUBLIC_KEY is checked before the client is built, with
\* the private key when PRIVATE_KEY is set and by initSDK otherwise
RegisterAccount(publicKey, e) ==
  LET e2 == [e EXCEPT !.PUBLIC_KEY = publicKey]
  IN /\ Handler("register", NoOpts, e2)
     /\ IF publicKey = <<>> THEN ReturnEarly("Error: PUBLIC_KEY environment variable is not set")
        ELSE IF ~StartsWith0x(publicKey) THEN ReturnEarly("Error: PUBLIC_KEY must start with 0x")
        ELSE InitThenCall(IF e.PRIVATE_KEY # ""
                          THEN initSDKWithPrivateKey(e.PRIVATE_KEY, "", DEFAULT_API_URI,
                                                     fs, now, saved)
                          ELSE initSDK(e, fs, now, saved),
                          EnforcerMethod("register"))

OneCallCommands ==
  EnforcerCommands \cup AdminCommands \cup ObjectStoreCommands
    \cup {"delete-api-key", "delete-file", "upload-file", "list-files", "register"}

MethodOf(c) ==
  IF EnforcerMethod(c) # "" THEN EnforcerMethod(c)
  ELSE IF AdminMethod(c) # "" THEN AdminMethod(c)
  ELSE ObjectStoreMethod(c)

\* variant: a call that failed is made once more before the error is reported
SdkCall_Retry(ok) ==
  /\ cmd \in OneCallCommands /\ pc = MethodOf(cmd)
  /\ calls' = IF ok THEN Append(calls, Call(MethodOf(cmd)))
               ELSE calls \o <<Call(MethodOf(cmd)), Call(MethodOf(cmd))>>
  /\ out' = Append(out, IF ok THEN "succeed" ELSE "Error:")
  /\ err' = IF ok THEN err ELSE MethodOf(cmd)
  /\ pc' = "done"
  /\ UNCHANGED <<fs, dirs, now, env, cmd, opts, sdk, login, req, lastGet, saved, fs0, main, writer, envKey>>

\* the SDK method of such a handler returns or throws, and the handler prints
\* the result or, in its catch, the error
SdkCall(ok) ==
  /\ cmd \in OneCallCommands /\ pc = MethodOf(cmd)
  /\ calls' = Append(calls, Call(MethodOf(cmd)))
  /\ out' = Append(out, IF ok THEN "succeed" ELSE "Error:")
  /\ err' = IF ok THEN err ELSE MethodOf(cmd)
  /\ pc' = "done"
  /\ UNCHANGED <<fs, dirs, now, env, cmd, opts, sdk, login, req, lastGet, saved, fs0, main, writer, envKey>>

\* ---- auth accept-terms (enforcer.ts 374-421) ---------------------------------

AcceptTerms(e) ==
  /\ Handler("accept-terms", NoOpts, e)
  /\ InitThenCall(initSDK(e, fs, now, saved), "getTerms")

\* what getTerms gives: an error, a response without data, data with an empty
\* text, data with a text
TermsResponses == {"throw", "none", "empty", "text"}

\* variant: terms.data alone is looked at
HasText_AnyData(r) == r \in {"empty", "text"}

\* terms.data && terms.data.text
HasText(r) == r = "text"

\* getTerms returns; terms that have a text are shown and the user is asked
GetTerms(r, accept) ==
  /\ cmd = "accept-terms" /\ pc = "getTerms"
  /\ calls' = Append(calls, [Call("getTerms") EXCEPT !.arg = r])
  /\ opts' = [opts EXCEPT !.asked = HasText(r), !.confirm = HasText(r) /\ accept]
  /\ err' = IF r = "throw" THEN "getTerms" ELSE err
  /\ out' = CASE r = "throw" -> Append(out, "Error:")
              [] ~HasText(r) -> out \o <<"Terms fetched successfully", "No terms found">>
              [] OTHER -> out \o (IF accept THEN <<"Terms fetched successfully">>
                                  ELSE <<"Terms fetched successfully", "Terms not accepted">>)
  /\ pc' = IF HasText(r) /\ accept THEN "updateAccountTerms" ELSE "done"
  /\ UNCHANGED <<fs, dirs, now, env, cmd, sdk, login, req, lastGet, saved, fs0, main, writer, envKey>>

UpdateAccountTerms(ok) ==
  /\ cmd = "accept-terms" /\ pc = "updateAccountTerms"
  /\ calls' = Append(calls, [Call("updateAccountTerms") EXCEPT !.arg = "accepted: true"])
  /\ out' = Append(out, IF ok THEN "Terms accepted successfully" ELSE "Error:")
  /\ err' = IF ok THEN err ELSE "updateAccountTerms"
  /\ pc' = "done"
  /\ UNCHANGED <<fs, dirs, now, env, cmd, opts, sdk, login, req, lastGet, saved, fs0, main, writer, envKey>>

\* ---- admin update-tenant and delete-tenant (admin.ts 253-383) ------------------

\* --active as it can be given: not at all, or any string
ActiveOptions == {"undefined", "true", "false", "TRUE"}
\* --name, given or not; --description is treated by the handler as --name is
NameOptions == {"", "name"}

TenantCommand(c, force, name, active, e) ==
  /\ c \in {"update-tenant", "delete-tenant"}
  /\ Handler(c, [NoOpts EXCEPT !.force = force, !.name = name, !.active = active], e)
  /\ InitThenCall(initSDK(e, fs, now, saved), "getTenant")

\* variant: a given --active counts as true unless it is empty
ActiveSent_Truthy(active, answer) == IF active # "undefined" THEN active # "" ELSE answer

\* options.active !== undefined ? options.active === 'true' : answers.active
ActiveSent(active, answer) == IF active # "undefined" THEN active = "true" ELSE answer

\* getTenant returns: a tenant that is not found ends the handler; delete-tenant
\* without --force asks for confirmation, update-tenant asks for what no option
\* gave, and confirm is the answer to the one confirm prompt of either
GetTenant(r, confirm) ==
  LET cancelled == cmd = "delete-tenant" /\ ~Confirmed(opts.force, confirm)
      confirming == IF cmd = "delete-tenant" THEN ~opts.force ELSE opts.active = "undefined"
      asking == confirming \/ (cmd = "update-tenant" /\ opts.name = "")
  IN /\ cmd \in {"update-tenant", "delete-tenant"} /\ pc = "getTenant"
     /\ calls' = Append(calls, Call("getTenant"))
     /\ opts' = [opts EXCEPT !.asked = r = "found" /\ asking,
                             !.confirm = r = "found" /\ confirming /\ confirm]
     /\ err' = IF r = "throw" THEN "getTenant" ELSE err
     /\ out' = CASE r = "throw" -> Append(out, "Error:")
                 [] r = "none" -> out \o <<"Tenant details fetched", "Tenant not found">>
                 [] OTHER -> out \o (IF cancelled
                                     THEN <<"Tenant details fetched", "Deletion cancelled">>
                                     ELSE <<"Tenant details fetched">>)
     /\ pc' = IF r # "found" \/ cancelled THEN "done"
              ELSE IF cmd = "update-tenant" THEN "updateTenant" ELSE "deleteTenant"
     /\ UNCHANGED <<fs, dirs, now, env, cmd, sdk, login, req, lastGet, saved, fs0, main, writer, envKey>>

TenantCall(ok) ==
  /\ cmd \in {"update-tenant", "delete-tenant"} /\ pc \in {"updateTenant", "deleteTenant"}
  /\ calls' = Append(calls, [Call(pc) EXCEPT !.arg =
                               IF pc # "updateTenant" THEN ""
                               ELSE IF ActiveSent(opts.active, opts.confirm)
                               THEN "active: true" ELSE "active: false"])
  /\ out' = Append(out, IF ok THEN "succeed" ELSE "Error:")
  /\ err' = IF ok THEN err ELSE pc
  /\ pc' = "done"
  /\ UNCHANGED <<fs, dirs, now, env, cmd, opts, sdk, login, req, lastGet, saved, fs0, main, writer, envKey>>

\* ---- process exit ---------------------------------------------------------

\* the handler has returned: parseAsync resolves, main returns, and the process
\* ends with status 0
Exit ==
  /\ pc = "done"
  /\ pc' = "idle"
  /\ cmd' = "none"
  /\ opts' = NoOpts
  /\ env' = Env("", "", "")
  /\ sdk' = NoSdk
  /\ calls' = <<>>
  /\ out' = <<>>
  /\ login' = NoLogin
  /\ req' = PrimVal(Undefined)
  /\ lastGet' = NoGet
  /\ fs0' = fs[TOKEN_FILE]
  /\ err' = ""
  /\ main' = [NoMain EXCEPT !.stage = "exit"]
  /\ envKey' = IF cmd = "login" /\ login.method = "apiKey" /\ sdk.kind # "none"
               THEN env.API_KEY ELSE ""
  /\ UNCHANGED <<fs, dirs, now, saved, writer>>

\* ---- main (the CLI entry file) ---------------------------------------------

\* variant: the catch prints the error and lets the process end normally
MainCatch_NoExit(at) == [stage |-> "exit", code |-> 0, stderr |-> "Error:", thrown |-> at]

\* the catch of main: console.error('Error:', message), then process.exit(1)
MainCatch(at) == [stage |-> "exit", code |-> 1, stderr |-> "Error:", thrown |-> at]

\* process.argv.length: node, the script, and the arguments given
ArgvLengths == {2, 3}

\* a new process, up to the call of parseAsync: the command groups are
\* registered, and with no argument program.help() prints the help and exits
\* with status 0; an error thrown on the way is caught by main
Main(throws, argc) ==
  /\ pc = "idle" /\ main.stage \in {"shell", "exit"}
  /\ main' = IF throws THEN MainCatch("register")
             ELSE IF argc = 2 THEN [NoMain EXCEPT !.stage = "exit"]
             ELSE [NoMain EXCEPT !.stage = "parse"]
  /\ UNCHANGED <<fs, dirs, now, env, cmd, opts, pc, sdk, calls, out, login, req, lastGet, saved,
                 fs0, err, writer, envKey>>

\* program.parseAsync rejects, with an error of the parser or with one a
\* handler has let out, and the catch of main ends the process
ParseAsyncRejects ==
  /\ main.stage = "parse" /\ pc \in {"idle", "thrown"}
  /\ main' = MainCatch("parseAsync")
  /\ pc' = "idle"
  /\ cmd' = "none"
  /\ opts' = NoOpts
  /\ env' = Env("", "", "")
  /\ sdk' = NoSdk
  /\ calls' = <<>>
  /\ out' = <<>>
  /\ login' = NoLogin
  /\ req' = PrimVal(Undefined)
  /\ lastGet' = NoGet
  /\ fs0' = fs[TOKEN_FILE]
  /\ err' = ""
  /\ UNCHANGED <<fs, dirs, now, saved, writer, envKey>>

\* the answers the login prompts can get for the options given
PromptMethods(o) == IF o.privateKey # "" \/ o.apiKey # "" THEN {"none"} ELSE {"siwe", "apiKey"}
\* what is typed at a key prompt: a key, nothing, or blanks
Blank == "  "
Typed(m) ==
  CASE m = "siwe" -> {"keyB", "", Blank}
    [] m = "apiKey" -> ApiKeys \cup {"", Blank}
    [] OTHER -> {""}

\* String.prototype.trim
Trim(input) == IF input = Blank THEN "" ELSE input

\* variant: a prompt without validation
Validates_Any(input) == TRUE

\* validate: (input) => input.trim() !== '' ? true : '... is required'
Validates(input) == Trim(input) # ""

\* the answers a key prompt returns: it asks again until validate passes; no
\* key prompt is shown when a key was given
PromptKeys(m) == IF m = "none" THEN {""} ELSE {k \in Typed(m) : Validates(k)}

\* ---- the system ----------------------------------------------------------

Next ==
  \/ Tick
  \/ \E o \in LoginOptions, e \in Environments :
        \E m \in PromptMethods(o) : \E k \in PromptKeys(m) : AuthLogin(o, e, m, k)
  \/ \E r \in {"throw"} \cup Nonces : RequestNonce(r)
  \/ \E ok \in BOOLEAN : SignSiWeMessage(ok)
  \/ \E ok \in BOOLEAN : AuthenticateSiWe(ok, TokenFor(login.msg.address))
  \/ \E ok \in BOOLEAN : AccountDetail(ok)
  \/ \E e \in Environments : AuthAccount(e)
  \/ \E a \in Addresses, e \in Environments : AccountExists(a, e)
  \/ \E r \in {"throw", "yes", "no"} : AccountExistsCall(r)
  \/ \E c \in {"authorize", "authorize-batch"}, o \in AuthorizeOptions, e \in Environments :
        Authorize(c, o, e)
  \/ \E ok \in BOOLEAN, r \in Responses : Validate(ok, r)
  \/ \E p \in OutputPaths, e \in Environments : DownloadFile(p, e)
  \/ \E ok \in BOOLEAN, b \in DownloadBodies : DownloadEncryptedFile(ok, b)
  \/ Exit
  \/ \E throws \in BOOLEAN, argc \in ArgvLengths : Main(throws, argc)
  \/ ParseAsyncRejects

Spec == Init /\ [][Next]_vars

\* every command of the CLI, over a credential file that is absent or holds an
\* unexpired credential
InitAll ==
  /\ Init
  /\ fs[TOKEN_FILE] \in {Absent, File(JSONstringify(CredentialFields(OldToken, NumV(LateExpiry))))}

NextAll ==
  \/ Next
  \/ \E c \in EnforcerCommands, e \in Environments : EnforcerCommand(c, e)
  \/ \E c \in AdminCommands, e \in Environments : AdminCommand(c, e)
  \/ \E c \in ObjectStoreCommands, e \in Environments : ObjectStoreCommand(c, e)
  \/ \E c \in {"delete-api-key", "delete-file"}, force \in BOOLEAN, e \in Environments :
        \E confirm \in (IF force THEN {FALSE} ELSE BOOLEAN) : DeleteCommand(c, force, confirm, e)
  \/ \E p \in {RequestPath, "missing.json"}, e \in Environments : UploadFile(p, e)
  \/ \E b \in {"", "bucket"}, e \in Environments : ListFiles(b, e)
  \/ \E k \in PublicKeys, e \in Environments : RegisterAccount(k, e)
  \/ \E ok \in BOOLEAN : SdkCall(ok)
  \/ \E e \in Environments : AcceptTerms(e)
  \/ \E r \in TermsResponses, accept \in BOOLEAN : GetTerms(r, accept)
  \/ \E ok \in BOOLEAN : UpdateAccountTerms(ok)
  \/ \E c \in {"update-tenant", "delete-tenant"}, e \in Environments :
        \E force \in (IF c = "delete-tenant" THEN BOOLEAN ELSE {FALSE}),
           name \in (IF c = "update-tenant" THEN NameOptions ELSE {""}),
           active \in (IF c = "update-tenant" THEN ActiveOptions ELSE {"undefined"}) :
             TenantCommand(c, force, name, active, e)
  \/ \E r \in {"throw", "none", "found"}, confirm \in BOOLEAN : GetTenant(r, confirm)
  \/ \E ok \in BOOLEAN : TenantCall(ok)

SpecAll == InitAll /\ [][NextAll]_vars

\* ---- a saveToken of another process, seen by a getToken of this one ----------

\* a lexeme cut short: the leading digits of a number, or a string without its
\* closing quote
Partial(x) ==
  IF x.p.ty = "number" THEN Lit(NumV(Ms(x.p.hi \div BASE, x.p.hi % BASE))) ELSE Junk

\* variant: the file is opened without truncation and written over in place
WriterContent_InPlace(w) ==
  LET new == SubSeq(w.text, 1, w.done)
               \o (IF w.partial THEN <<Partial(w.text[w.done + 1])>> ELSE <<>>)
  IN new \o SubSeq(w.old, Len(new) + 1, Len(w.old))

\* what the file holds while writeFileSync is at work: it was truncated when
\* it was opened, and holds the part of the text written so far
WriterContent(w) ==
  SubSeq(w.text, 1, w.done) \o (IF w.partial THEN <<Partial(w.text[w.done + 1])>> ELSE <<>>)

\* saveToken of the other process up to the opening of the file
WriterOpen(token) ==
  LET w == [active |-> TRUE, at |-> now, partial |-> FALSE, done |-> 0,
            text |-> JSONstringify(CredentialFields(token, NumV(Add(now, SecToMs(ThirtyDays))))),
            old |-> fs[TOKEN_FILE].content]
  IN /\ pc = "idle" /\ ~writer.active
     /\ writer' = w
     /\ dirs' = dirs \cup {TOKEN_DIR}
     /\ fs' = [fs EXCEPT ![TOKEN_FILE] = File(WriterContent(w))]
     /\ saved' = NoSave
     /\ UNCHANGED <<now, env, cmd, opts, pc, sdk, calls, out, login, req, lastGet, fs0, err, main, envKey>>

\* the write goes on to n whole lexemes, with the next one cut short or not;
\* with the last lexeme the saveToken is complete
WriterWrite(n, partial) ==
  LET w == [writer EXCEPT !.done = n, !.partial = partial]
      complete == n = Len(writer.text)
  IN /\ writer.active
     /\ n \in writer.done..Len(writer.text)
     /\ n > writer.done \/ (partial /\ ~writer.partial)
     /\ partial => (n < Len(writer.text) /\ writer.text[n + 1].k = "val")
     /\ writer' = IF complete THEN NoWriter ELSE w
     /\ fs' = [fs EXCEPT ![TOKEN_FILE] = File(WriterContent(w))]
     /\ saved' = IF complete
                 THEN [valid |-> TRUE, token |-> Prop(JSONparse(writer.text).v, "token"), ttl |-> ThirtyDays,
                       at |-> writer.at]
                 ELSE saved
     /\ UNCHANGED <<dirs, now, env, cmd, opts, pc, sdk, calls, out, login, req, lastGet, fs0,
                    err, main, envKey>>

\* getToken of this process, at any moment of the write
ReaderGetToken ==
  LET tokenData == getToken(fs, now)
  IN /\ pc = "idle"
     /\ lastGet' = [called |-> TRUE, file |-> fs[TOKEN_FILE], at |-> now,
                    some |-> tokenData.some, data |-> tokenData.data, saved |-> saved]
     /\ UNCHANGED <<fs, dirs, now, env, cmd, opts, pc, sdk, calls, out, login, req, saved, fs0,
                    err, main, writer, envKey>>

\* how far a write can have come: the lexemes of the credential text
Positions == 0..Len(JSONstringify(CredentialFields(OldToken, NumV(LateExpiry))))

InitConcurrent ==
  /\ Init
  /\ fs[TOKEN_FILE] \in {Absent} \cup {File(JSONstringify(CredentialFields(OldToken, NumV(e)))) :
                                        e \in {SoonExpiry, LateExpiry}}

NextConcurrent ==
  \/ Tick
  \/ \E t \in RemoteTokens : WriterOpen(t)
  \/ \E n \in Positions, partial \in BOOLEAN : WriterWrite(n, partial)
  \/ ReaderGetToken

SpecConcurrent == InitConcurrent /\ [][NextConcurrent]_vars

(***************************************************************************)
(* Properties                                                              *)
(***************************************************************************)
SiweSteps == <<"requestNonce", "signSiWeMessage", "authenticateSiWe", "saveToken">>
IsSiweStep(m) == \E i \in 1..Len(SiweSteps) : SiweSteps[i] = m
SiweCalls == SelectSeq(Names(calls), IsSiweStep)
Called(m) == \E i \in 1..Len(calls) : calls[i].m = m
Printed(msg) == \E i \in 1..Len(out) : out[i] = msg
TimesPrinted(msg) == Cardinality({i \in 1..Len(out) : out[i] = msg})
\* data.expiresAt of the file content as the comparison sees it; NaN when the
\* content does not parse or has no such member
ExpiryOf(file) ==
  LET r == JSONparse(file.content)
  IN IF file.exists /\ r.ok THEN ToNumber(Prop(r.v, "expiresAt")) ELSE NaN
TokenOf(file) == Prop(JSONparse(file.content).v, "token")

\* C1: getToken returns the stored data only when its expiresAt is strictly
\* greater than the clock reading; with expiresAt <= now, expiresAt = now
\* included, it returns null.
C1_NoExpiredToken ==
  lastGet.called =>
    LET e == ExpiryOf(lastGet.file)
    IN /\ lastGet.some =>
            /\ e.s # "NaN" /\ Gt(Ms(e.hi, e.lo), lastGet.at)
            /\ lastGet.data = JSONparse(lastGet.file.content).v
       /\ (e.s # "NaN" /\ ~Gt(Ms(e.hi, e.lo), lastGet.at)) => ~lastGet.some

\* the cache is read in the very millisecond the stored token expires
C1_Witness ==
  /\ lastGet.called /\ lastGet.file.exists
  /\ ExpiryOf(lastGet.file) = NumV(lastGet.at)
  /\ TokenOf(lastGet.file) = OldToken
  /\ ~lastGet.some

\* C2: after loginWithSIWE returned token T at time t0, a getToken at any time
\* t < t0 + 2592000000 ms, the file not rewritten in between, returns a record
\* whose token is T; and T is what loginWithSIWE returned.
C2_RoundTrip ==
  /\ (lastGet.called /\ lastGet.saved.valid
        /\ Gt(Add(lastGet.saved.at, Ms(2592, 0)), lastGet.at))
       => (lastGet.some /\ Prop(lastGet.data, "token") = lastGet.saved.token)
  /\ (cmd = "login" /\ login.ret # Undefined)
       => (saved.valid /\ saved.token = login.ret /\ TokenOf(fs[TOKEN_FILE]) = login.ret)

\* a later invocation reads the token of an earlier login, after time has passed
C2_Witness ==
  /\ lastGet.called /\ lastGet.saved.valid /\ lastGet.some
  /\ Gt(lastGet.at, lastGet.saved.at)
  /\ Prop(lastGet.data, "token") = StrV("jwtB")

Malformed(file) ==
  LET r == JSONparse(file.content)
  IN file.exists /\ (~r.ok \/ r.v.ty # "object" \/ r.v.f["token"].ty # "string"
                       \/ r.v.f["expiresAt"].ty # "number")

\* C3: on a malformed credential file (not JSON, not an object, no string
\* token or no numeric expiresAt) getToken returns null as for an absent file,
\* and no record with a missing or non-string token is set on the client.
C3_MalformedIsAbsent ==
  /\ (lastGet.called /\ Malformed(lastGet.file)) => ~lastGet.some
  /\ sdk.jwtSet => sdk.jwt.ty = "string"

\* C4: in a loginWithSIWE call the steps requestNonce, signSiWeMessage,
\* authenticateSiWe, saveToken happen in this order, each at most once; the
\* signed message carries a received nonce and the file is written only after
\* authenticateSiWe returned a token.
C4_LoginOrder ==
  (cmd = "login" /\ login.method = "siwe") =>
    /\ \E n \in 0..Len(SiweSteps) : SiweCalls = SubSeq(SiweSteps, 1, n)
    /\ Called("signSiWeMessage") => (login.nonce \in Nonces /\ login.msg.nonce = login.nonce)
    /\ Called("saveToken") => login.ret \in RemoteTokens
    /\ fs[TOKEN_FILE] # fs0 => (Called("authenticateSiWe") /\ login.ret \in RemoteTokens)

\* a login that went through all four steps
C4_Witness ==
  /\ cmd = "login" /\ login.method = "siwe"
  /\ SiweCalls = SiweSteps
  /\ fs[TOKEN_FILE] # fs0

FailedPrefix(at) ==
  CASE at = "requestNonce" -> SubSeq(SiweSteps, 1, 1)
    [] at = "signSiWeMessage" -> SubSeq(SiweSteps, 1, 2)
    [] OTHER -> SubSeq(SiweSteps, 1, 3)

\* C5: when requestNonce, signSiWeMessage or authenticateSiWe fails, no later
\* step runs, none is retried, the credential file stays as it was before the
\* attempt, and the handler prints 'Login failed' once and ends.
C5_FailureAborts ==
  (cmd = "login" /\ login.method = "siwe"
     /\ login.failedAt \in {"requestNonce", "signSiWeMessage", "authenticateSiWe"}) =>
    /\ pc = "done"
    /\ Names(calls) = FailedPrefix(login.failedAt)
    /\ fs[TOKEN_FILE] = fs0
    /\ TimesPrinted("Login failed") = 1
    /\ ~Printed("Login successful")

\* authenticateSiWe fails while an unexpired token of an earlier login is cached
C5_Witness ==
  /\ cmd = "login" /\ login.failedAt = "authenticateSiWe"
  /\ saved.valid /\ fs0 = fs[TOKEN_FILE] /\ fs0.exists
  /\ pc = "done"

\* C6: the same JSON object given through --file and through --json yields
\* the same request object for validateAuthorization(s), nothing added,
\* removed or changed.
C6_SameRequest ==
  (cmd \in {"authorize", "authorize-batch"} /\ Called(ValidateMethod(cmd))) =>
    req = ObjVal(RequestFields)

\* the object reaches the SDK from a --json string, written differently than in the file
C6_Witness ==
  /\ cmd = "authorize-batch" /\ Called("validateAuthorizations")
  /\ opts.file = "" /\ opts.json = GoodJson
  /\ fs[RequestPath].content # GoodJson
  /\ JSONparse(fs[RequestPath].content).v = req

Lacks0x(a) == Len(a) < 2 \/ SubSeq(a, 1, 2) # <<"0", "x">>

\* C7, as stated: an address without the 0x prefix is rejected with 'Address
\* must start with 0x' and without any SDK call, in every environment,
\* whether or not the SDK initialisation succeeds.
C7_Original ==
  (cmd = "account-exists" /\ Lacks0x(opts.address) /\ pc = "done") =>
    (calls = <<>> /\ Printed("Address must start with 0x"))

\* C7, amended: an address without the 0x prefix never leads to an SDK call,
\* in every environment; 'Address must start with 0x' is printed exactly when
\* initSDK succeeded, otherwise the command reports 'Failed to check account'.
C7_RejectedLocally ==
  (cmd = "account-exists" /\ Lacks0x(opts.address)) =>
    /\ pc = "done" /\ calls = <<>>
    /\ Printed("Address must start with 0x") <=> sdk.kind # "none"
    /\ sdk.kind = "none" => Printed("Failed to check account")

\* an address with an upper-case prefix is rejected by an initialised client
C7_Witness ==
  /\ cmd = "account-exists" /\ opts.address = <<"0", "X", "a">>
  /\ sdk.kind = "Mesh" /\ Printed("Address must start with 0x")

\* C8: saveToken stores expiresAt = clock reading + ttl * 1000, and the only
\* caller passes ttl = 2592000, so a saved token expires 2592000000 ms after
\* the reading taken at the save.
C8_Expiry ==
  saved.valid =>
    /\ saved.ttl = 2592000
    /\ Prop(JSONparse(fs[TOKEN_FILE].content).v, "expiresAt") = NumV(Add(saved.at, Ms(2592, 0)))

\* a token saved after the clock has moved on
C8_Witness ==
  /\ saved.valid /\ saved.at = Ms(EpochHi, 1)
  /\ Prop(JSONparse(fs[TOKEN_FILE].content).v, "expiresAt") = NumV(Ms(EpochHi + 2592, 1))

LoginSaves == cmd = "login" /\ pc = "authenticateSiWe" /\ pc' = "accountDetail"

\* C9, as stated: the credential file changes only in a successful SIWE
\* sign-in; every other command leaves it unchanged and nothing deletes it.
C9_Original ==
  [][/\ fs'[TOKEN_FILE] # fs[TOKEN_FILE] => LoginSaves
     /\ fs[TOKEN_FILE].exists => fs'[TOKEN_FILE].exists]_vars

OutputIsTokenFile ==
  \/ cmd \in {"authorize", "authorize-batch"} /\ pc = ValidateMethod(cmd) /\ OutPath(opts) = TOKEN_FILE
  \/ cmd = "download-file" /\ pc = "downloadEncryptedFile" /\ opts.outfile = TOKEN_FILE

\* C9, amended: nothing deletes the credential file, getToken never modifies
\* it, and it changes only in a successful SIWE sign-in, or when the user
\* names the credential file itself as the output path of authorize,
\* authorize-batch or download-file.
C9_OnlyLoginWrites ==
  [][/\ fs'[TOKEN_FILE] # fs[TOKEN_FILE] => (LoginSaves \/ OutputIsTokenFile)
     /\ fs[TOKEN_FILE].exists => fs'[TOKEN_FILE].exists
     /\ (lastGet' # lastGet /\ ~LoginSaves /\ ~OutputIsTokenFile) => fs' = fs]_vars

\* an API-key login has run to its end over an existing credential file
C9_Witness ==
  /\ cmd = "login" /\ login.method = "apiKey" /\ pc = "done"
  /\ Called("accountDetail")
  /\ fs0.exists /\ fs[TOKEN_FILE] = fs0

HoldsUnexpired(file, t) == LET e == ExpiryOf(file) IN e.s # "NaN" /\ Gt(Ms(e.hi, e.lo), t)

\* C10, as stated: every successful initSDK reads the credential cache and
\* sets an unexpired cached token on the client before the first remote call.
C10_Original ==
  (sdk.kind # "none" /\ ~(cmd = "login" /\ login.method = "siwe")) =>
    /\ lastGet.called
    /\ HoldsUnexpired(fs0, lastGet.at) =>
         /\ sdk.jwtSet /\ sdk.jwt = TokenOf(fs0)
         /\ \A i \in 1..Len(calls) : calls[i].jwtSet /\ calls[i].jwt = TokenOf(fs0)

\* C10, amended: every successful initSDK that builds the private-key client
\* (PRIVATE_KEY set) reads the credential cache and sets an unexpired cached
\* token on the client before the first remote call; the API-key client
\* (API_KEY set, PRIVATE_KEY unset) is built without reading the cache.
C10_CacheReadAtInit ==
  /\ (sdk.kind = "Mesh" /\ ~(cmd = "login" /\ login.method = "siwe")) =>
       /\ lastGet.called /\ lastGet.file = fs0
       /\ HoldsUnexpired(fs0, lastGet.at) =>
            /\ sdk.jwtSet /\ sdk.jwt = TokenOf(fs0)
            /\ \A i \in 1..Len(calls) : calls[i].jwtSet /\ calls[i].jwt = TokenOf(fs0)
  /\ sdk.kind = "MeshLite" => (~lastGet.called /\ ~sdk.jwtSet)

\* a command of a private-key session has made its remote call with the cached token
C10_Witness ==
  /\ cmd = "account" /\ sdk.kind = "Mesh"
  /\ Len(calls) = 1 /\ calls[1].m = "accountDetail"
  /\ calls[1].jwtSet /\ calls[1].jwt = OldToken

\* C11: after saveToken(T, ttl) the credential file holds exactly the pair
\* {token: T, expiresAt} of that call and its directory exists, whatever the
\* file held before and whether or not the directory existed; after two
\* logins the file holds the later token only.
C11_SaveOverwrites ==
  saved.valid =>
    /\ TOKEN_DIR \in dirs
    /\ fs[TOKEN_FILE] =
         File(<<LB, Lit(StrV("token")), Colon, Lit(saved.token), Comma,
                Lit(StrV("expiresAt")), Colon, Lit(NumV(Add(saved.at, Ms(2592, 0)))), RB>>)

\* a second login has replaced the token the first one stored
C11_Witness ==
  /\ cmd = "login" /\ saved.valid /\ saved.token = StrV("jwtB")
  /\ fs0.exists /\ TokenOf(fs0) = StrV("jwtA")
  /\ TokenOf(fs[TOKEN_FILE]) = StrV("jwtB")

\* what a handler prints, last, for an error it has caught
ErrorReports ==
  {"Login failed", "Could not fetch account details",
   "API key set, but could not verify account details", "Failed to fetch account details",
   "Account exists but could not fetch details", "Failed to check account",
   "Failed to read or parse file", "Failed to parse JSON string",
   "Authorization validation failed", "Batch authorization validation failed",
   "Error", "Error:", "API key is required", "Private key is required", "invalid private key",
   "Either API_KEY or PRIVATE_KEY must be provided in environment variables"}

\* C12: in every command handler an error of input parsing, file I/O, SDK
\* initialisation or the remote call is caught inside the handler and reported:
\* the handler ends having printed the error, no error leaves it, and while a
\* command runs the catch of main is not entered, so a command failure never
\* ends the process with status 1.
C12_CaughtInHandler ==
  [][/\ pc' # "thrown"
     /\ err' # "" => (pc' = "done" /\ out' # <<>> /\ out'[Len(out')] \in ErrorReports)
     /\ cmd # "none" => (main'.thrown = "" /\ main'.stderr = "" /\ main'.code = 0)]_vars

\* update-tenant has failed at its second remote call and the process goes on
C12_Witness ==
  /\ cmd = "update-tenant" /\ err = "updateTenant" /\ pc = "done"
  /\ Called("getTenant") /\ Printed("Error:")
  /\ main.stage = "parse" /\ main.thrown = ""

\* C13: an error thrown while the commands are registered, or coming out of
\* program.parseAsync, is caught by main: it is printed to stderr and the
\* process exits with status 1, never with 0 and never left running.
C13_MainCatches ==
  main.thrown # "" => (main.stage = "exit" /\ main.code = 1 /\ main.stderr = "Error:")

\* the registration of the commands has thrown
C13_Witness == main.thrown = "register" /\ main.stage = "exit" /\ main.code = 1

\* C14: `auth login --api-key K` without --private-key authenticates with the
\* API key: the client it builds and verifies is the API-key (MeshLite) client
\* carrying K, whatever PRIVATE_KEY and API_KEY are in the environment.
C14_ApiKeyLogin ==
  (cmd = "login" /\ opts.privateKey = "" /\ opts.apiKey # "") =>
    (sdk.kind = "MeshLite" /\ sdk.apiKey = opts.apiKey)

\* C15: once `auth login --api-key K` has completed, a later invocation such as
\* `auth account` runs authenticated with K, whether or not the environment of
\* that invocation supplies K again: the handler that begins after that login
\* has left K in its process.env builds a client that carries K.
C15_KeyKeptForLater ==
  [][(envKey # "" /\ cmd' = "account") => (sdk'.kind # "none" /\ sdk'.apiKey = envKey)]_vars

\* the SDK methods the running handler has invoked, in order
SdkCalls == SelectSeq(Names(calls), LAMBDA m : m # "saveToken")
IsPrefixOf(s, t) == Len(s) <= Len(t) /\ SubSeq(t, 1, Len(s)) = s

\* C16, as stated: every command handler invokes one SDK method per
\* invocation, so an invocation makes at most one call of the SDK.
C16_Original == Len(SdkCalls) <= 1

\* the handlers that call the SDK more than once, with their calls in order
SeveralCalls ==
  CASE cmd = "login" /\ login.method = "siwe" ->
         <<"requestNonce", "signSiWeMessage", "authenticateSiWe", "accountDetail">>
    [] cmd = "account-exists" -> <<"accountExists", "accountDetail">>
    [] cmd = "accept-terms" -> <<"getTerms", "updateAccountTerms">>
    [] cmd = "update-tenant" -> <<"getTenant", "updateTenant">>
    [] cmd = "delete-tenant" -> <<"getTenant", "deleteTenant">>
    [] OTHER -> <<>>

\* C16, amended: a command handler invokes at most one SDK method per
\* invocation, except auth login with a private key (requestNonce,
\* signSiWeMessage, authenticateSiWe, accountDetail), auth account-exists
\* (accountExists, accountDetail), auth accept-terms (getTerms,
\* updateAccountTerms), admin update-tenant (getTenant, updateTenant) and admin
\* delete-tenant (getTenant, deleteTenant), which make these calls in this
\* order and stop at the first that fails or makes the rest unnecessary.
C16_CallsPerCommand ==
  IF SeveralCalls # <<>> THEN IsPrefixOf(SdkCalls, SeveralCalls)
  ELSE Len(SdkCalls) <= 1

\* delete-tenant has fetched the tenant and then deleted it
C16_Witness ==
  /\ cmd = "delete-tenant" /\ pc = "done"
  /\ SdkCalls = <<"getTenant", "deleteTenant">>

\* C17: a getToken that runs while another process is in saveToken never
\* returns anything but the credential stored before the write or the one the
\* write stores: the content of a file that is partly written, the empty file
\* after the truncation included, is no credential, and no mixture of the old
\* and the new content is returned.
C17_NoTornRead ==
  [][lastGet' # lastGet =>
       /\ writer.active => ~lastGet'.some
       /\ lastGet'.some =>
            \/ /\ saved.valid
               /\ lastGet'.data =
                    ObjVal(CredentialFields(saved.token, NumV(Add(saved.at, Ms(2592, 0)))))
            \/ /\ ~saved.valid /\ fs0.exists
               /\ lastGet'.data = JSONparse(fs0.content).v]_vars

\* a read has met the file with its last number cut short and returned nothing
C17_Witness ==
  /\ writer.active /\ writer.partial /\ writer.done = 7
  /\ lastGet.called /\ lastGet.file = fs[TOKEN_FILE] /\ ~lastGet.some
  /\ fs0.exists

\* C18: auth authorize and auth authorize-batch write a file only in the step
\* in which the SDK call returns successfully and only with --outfile: the
\* response, pretty-printed, goes to tmp/my.json when the option has no path
\* and to the given path otherwise, the directory of the path exists
\* afterwards, and no other file changes. When the input cannot be parsed,
\* the client cannot be built or the call fails, no file is written.
C18_Outfile ==
  [][cmd' \in {"authorize", "authorize-batch"} =>
       LET path == IF opts.outfile = "true" THEN "tmp/my.json" ELSE opts.outfile
           returned == /\ Len(calls') = Len(calls) + 1
                       /\ calls'[Len(calls')].m \in
                            {"validateAuthorization", "validateAuthorizations"}
                       /\ err' = ""
       IN IF returned /\ opts.outfile # ""
          THEN /\ fs'[path] =
                    File(<<LB, Ws, Lit(StrV("action")), Colon, Ws, Lit(StrV("allow")), Ws, RB>>)
               /\ Dirname(path) \in dirs'
               /\ \A p \in Paths \ {path} : fs'[p] = fs[p]
          ELSE fs' = fs /\ dirs' = dirs]_vars

\* a batch validated with a bare --outfile: tmp was created, tmp/my.json holds
\* the response
C18_Witness ==
  /\ cmd = "authorize-batch" /\ opts.outfile = "true" /\ pc = "done" /\ err = ""
  /\ Called("validateAuthorizations") /\ Printed("Response saved")
  /\ "tmp" \in dirs /\ fs[DefaultOutfile].exists

\* C19: auth login given neither --private-key nor --api-key asks for the
\* method and then for the key of that method; afterwards exactly one of the
\* two keys is set, it is not empty, and it is the key of the chosen method.
\* The final branch of the handler, which reports 'Either private key or API
\* key must be provided', is never taken, with or without the prompts.
C19_PromptsGiveOneKey ==
  cmd = "login" =>
    /\ ~Printed("Either private key or API key must be provided")
    /\ login.method \in {"siwe", "apiKey"}
    /\ login.prompted =>
         /\ (opts.privateKey # "") # (opts.apiKey # "")
         /\ login.method = "siwe" <=> opts.privateKey # ""
         /\ opts.privateKey # "  " /\ opts.apiKey # "  "

\* both prompted ways occur; this one is the API key typed at the prompt
C19_Witness ==
  /\ cmd = "login" /\ login.prompted /\ login.method = "apiKey"
  /\ opts.apiKey = "apiK" /\ opts.privateKey = "" /\ pc = "done" /\ Called("accountDetail")

\* the handler has called initSDK with the environment of the state
InitSDKRan ==
  \/ cmd \in {"account", "account-exists", "download-file"}
  \/ cmd \in {"authorize", "authorize-batch"} /\ err # "input"
       /\ ~Printed("No input provided. Use --file or --json option.")
  \/ cmd = "login" /\ login.method = "apiKey"

\* an unset variable and an empty one are the same value here
NoKeyReport == "Either API_KEY or PRIVATE_KEY must be provided in environment variables"
KeylessOrLite ==
  /\ (env.PRIVATE_KEY = "" /\ env.API_KEY # "") =>
       (sdk.kind = "MeshLite" /\ sdk.apiKey = env.API_KEY /\ sdk.key = "")
  /\ (env.PRIVATE_KEY = "" /\ env.API_KEY = "") =>
       (sdk.kind = "none" /\ calls = <<>> /\ Printed(NoKeyReport))
  /\ sdk.kind # "none" =>
       sdk.apiUri = (IF env.API_URI = "" THEN "http://localhost:8080" ELSE env.API_URI)

\* C20 as stated: whenever PRIVATE_KEY is set, initSDK gives the private-key
\* client.
C20_Original ==
  InitSDKRan =>
    /\ KeylessOrLite
    /\ env.PRIVATE_KEY # "" =>
         (sdk.kind = "Mesh" /\ sdk.key = env.PRIVATE_KEY /\ sdk.apiKey = env.API_KEY)

\* C20: initSDK chooses by the environment. PRIVATE_KEY set, with or without
\* API_KEY, takes the private-key path: the private-key client when the key is
\* a valid key, and otherwise the failure of that path, with no client, no
\* remote call, and never the API-key client or the report about the
\* environment. API_KEY set and PRIVATE_KEY unset gives the API-key client.
\* Neither set fails with 'Either API_KEY or PRIVATE_KEY must be provided in
\* environment variables' with no client built and no remote call made. The
\* client's URI is API_URI, or http://localhost:8080 when that is unset or empty.
C20_ModeFromEnv ==
  InitSDKRan =>
    /\ KeylessOrLite
    /\ env.PRIVATE_KEY # "" =>
         /\ sdk.kind # "MeshLite" /\ ~Printed(NoKeyReport)
         /\ sdk.kind = "Mesh" <=> env.PRIVATE_KEY \in {"keyA", "keyB"}
         /\ sdk.kind = "Mesh" => (sdk.key = env.PRIVATE_KEY /\ sdk.apiKey = env.API_KEY)
         /\ sdk.kind = "none" => calls = <<>>

\* both keys set: the private key wins, and the API key goes with the client
C20_Witness ==
  /\ cmd = "account" /\ env.PRIVATE_KEY = "keyA" /\ env.API_KEY = "apiK" /\ env.API_URI = ""
  /\ sdk.kind = "Mesh" /\ sdk.apiKey = "apiK" /\ sdk.apiUri = DEFAULT_API_URI
  /\ Called("accountDetail")

\* C21: the SIWE message that is signed carries the nonce that requestNonce
\* returned in this very loginWithSIWE call, the account address the nonce was
\* requested for, which is the address of the session's key, and the protocol
\* version '1'; whatever nonce an earlier login received is not in it.
C21_MessageOfThisLogin ==
  (cmd = "login" /\ Called("signSiWeMessage")) =>
    /\ Called("requestNonce")
    /\ login.nonce \in {"n1", "n2"}
    /\ login.msg.nonce = login.nonce
    /\ login.msg.address = login.account
    /\ login.account = (IF opts.privateKey = "keyA" THEN "0xA" ELSE "0xB")
    /\ login.msg.version = "1"

\* a second login, with the other key, signs the nonce it was given itself
C21_Witness ==
  /\ cmd = "login" /\ Called("signSiWeMessage") /\ login.signed
  /\ opts.privateKey = "keyB" /\ login.msg.address = "0xB" /\ login.msg.nonce = "n2"
  /\ fs0.exists /\ TokenOf(fs0) = StrV("jwtA")

\* C22: in auth login with SIWE the service URI and the domain of the signed
\* message are those of the API URI the client was initialised with (--api-uri
\* if given, else API_URI, else the default), so that the nonce request, the
\* message and the authenticate call refer to one service.
C22_MessageForClientUri ==
  (cmd = "login" /\ login.method = "siwe" /\ Called("signSiWeMessage")) =>
    /\ sdk.apiUri = (IF opts.apiUri # "" THEN opts.apiUri
                     ELSE IF env.API_URI # "" THEN env.API_URI ELSE "http://localhost:8080")
    /\ login.msg.uri = sdk.apiUri
    /\ login.msg.domain = Hostname(sdk.apiUri)

\* C23: initSDKWithPrivateKey sets the cached token on the client whenever the
\* cache holds an unexpired record, whatever the private key, the API key and
\* the API URI of the session are: the record names neither account nor
\* service, and the token of a login with one key is set, unchanged, on a
\* session made with another key.
C23_CacheIgnoresSession ==
  (sdk.kind = "Mesh" /\ lastGet.called) =>
    LET r == JSONparse(lastGet.file.content)
        cached == /\ lastGet.file.exists /\ r.ok /\ r.v.ty = "object"
                  /\ r.v.f["expiresAt"].ty = "number"
                  /\ Gt(Ms(r.v.f["expiresAt"].hi, r.v.f["expiresAt"].lo), lastGet.at)
    IN /\ cached => (sdk.jwtSet /\ sdk.jwt = r.v.f["token"])
       /\ (lastGet.saved.valid /\ lastGet.file = fs0
             /\ Gt(Add(lastGet.saved.at, Ms(2592, 0)), lastGet.at)) =>
            (sdk.jwtSet /\ sdk.jwt = lastGet.saved.token)

\* the token issued to the account of keyB is on a session of keyA, for
\* another service and with an API key
C23_Witness ==
  /\ cmd = "account" /\ sdk.kind = "Mesh" /\ sdk.key = "keyA"
  /\ sdk.apiKey = "apiK" /\ sdk.jwtSet /\ sdk.jwt = StrV("jwtB")
  /\ lastGet.saved.valid /\ Called("accountDetail")

\* the three delete commands, the SDK method each of them deletes with, and
\* the handler having got as far as the confirmation without an error
DeleteCommands == {"delete-api-key", "delete-tenant", "delete-file"}
DeleteCalled ==
  \/ cmd = "delete-api-key" /\ Called("deleteAPIKey")
  \/ cmd = "delete-tenant" /\ Called("deleteTenant")
  \/ cmd = "delete-file" /\ Called("deleteEncryptedFile")
DeleteAwaited ==
  \/ cmd = "delete-api-key" /\ pc = "deleteAPIKey"
  \/ cmd = "delete-tenant" /\ pc = "deleteTenant"
  \/ cmd = "delete-file" /\ pc = "deleteEncryptedFile"
ConfirmationRules ==
  /\ (DeleteCalled \/ DeleteAwaited) => (opts.force \/ (opts.asked /\ opts.confirm))
  /\ opts.force => ~opts.asked
  /\ (opts.asked /\ ~opts.confirm) =>
       (pc = "done" /\ Printed("Deletion cancelled") /\ ~DeleteCalled)

\* C24 as stated: with --force the delete call is made, whenever nothing has
\* thrown by the end of the handler.
C24_Original ==
  cmd \in DeleteCommands =>
    /\ ConfirmationRules
    /\ (opts.force /\ pc = "done" /\ err = "") => DeleteCalled

\* C24: in auth delete-api-key, admin delete-tenant and os delete-file, without
\* --force the delete method is called only after the confirmation prompt was
\* answered with yes, and a refusal ends the command with 'Deletion cancelled'
\* and no delete call. With --force no confirmation prompt is shown, and the
\* delete call is made once the client is built and, in delete-tenant, once
\* getTenant has returned the tenant; a tenant that is not found ends
\* delete-tenant without a delete call, with --force too.
C24_ConfirmedDeletes ==
  cmd \in DeleteCommands =>
    /\ ConfirmationRules
    /\ (opts.force /\ pc = "done" /\ err = "") =>
         (DeleteCalled \/ (cmd = "delete-tenant" /\ Printed("Tenant not found")))
    /\ (cmd = "delete-tenant" /\ Printed("Tenant not found")) => ~DeleteCalled

\* a tenant deleted after the prompt was answered with yes
C24_Witness ==
  /\ cmd = "delete-tenant" /\ ~opts.force /\ opts.asked /\ opts.confirm
  /\ Called("deleteTenant") /\ pc = "done" /\ err = ""

MutatingCalls == {i \in 1..Len(calls) : calls[i].m \in {"updateTenant", "deleteTenant"}}

\* C25: admin update-tenant and admin delete-tenant call getTenant first, and
\* updateTenant or deleteTenant only when getTenant returned a tenant; when the
\* tenant is not found or getTenant throws, no prompt is shown and no mutating
\* call is made. The active flag update-tenant sends is true only when --active
\* is the string 'true', false for every other given value, and the answer to
\* the prompt when --active is not given.
C25_TenantFetchedFirst ==
  cmd \in {"update-tenant", "delete-tenant"} =>
    /\ calls # <<>> => calls[1].m = "getTenant"
    /\ \A i \in MutatingCalls :
         /\ i = 2 /\ Len(calls) = 2
         /\ calls[i].m = (IF cmd = "update-tenant" THEN "updateTenant" ELSE "deleteTenant")
         /\ ~Printed("Tenant not found") /\ err # "getTenant"
         /\ cmd = "update-tenant" =>
              calls[i].arg =
                (CASE opts.active = "true" -> "active: true"
                   [] opts.active = "undefined" /\ opts.asked /\ opts.confirm -> "active: true"
                   [] OTHER -> "active: false")
    /\ (Printed("Tenant not found") \/ err \in {"init", "getTenant"}) =>
         (~opts.asked /\ MutatingCalls = {} /\ pc = "done")

\* --active TRUE is not the string 'true': the tenant is updated as inactive
C25_Witness ==
  /\ cmd = "update-tenant" /\ opts.active = "TRUE" /\ pc = "done" /\ err = ""
  /\ Len(calls) = 2 /\ calls[2].m = "updateTenant" /\ calls[2].arg = "active: false"

\* C26: auth accept-terms calls updateAccountTerms({accepted: true}) only after
\* getTerms has returned terms with a text that is not empty and the user has
\* answered the prompt with yes. When the terms or their text are missing, when
\* the user declines, and when getTerms throws, updateAccountTerms is not
\* called.
C26_AcceptAfterTerms ==
  cmd = "accept-terms" =>
    /\ opts.asked => (Len(calls) >= 1 /\ calls[1].m = "getTerms" /\ calls[1].arg = "text")
    /\ opts.confirm => opts.asked
    /\ (Called("updateAccountTerms") \/ pc = "updateAccountTerms") =>
         (opts.asked /\ opts.confirm /\ err # "getTerms")
    /\ \A i \in 1..Len(calls) :
         calls[i].m = "updateAccountTerms" => (i = 2 /\ calls[i].arg = "accepted: true")
    /\ (Len(calls) >= 1 /\ (calls[1].arg # "text" \/ ~opts.confirm)) =>
         (pc = "done" /\ ~Called("updateAccountTerms"))

\* terms shown and accepted
C26_Witness ==
  /\ cmd = "accept-terms" /\ pc = "done" /\ opts.asked /\ opts.confirm
  /\ Called("getTerms") /\ Called("updateAccountTerms")
  /\ Printed("Terms accepted successfully")

\* the handler has ended without a client and without a call
NothingStarted == sdk.kind = "none" /\ ~lastGet.called /\ calls = <<>> /\ pc = "done"

\* C27: auth authorize and auth authorize-batch build no client and make no
\* remote call when neither --file nor --json is given, and when the file
\* cannot be read or the file or the string is not JSON. When both options are
\* given the request is what the file holds, and --json is not looked at: not
\* when it is malformed, and not when the file cannot be used.
C27_InputBeforeClient ==
  cmd \in {"authorize", "authorize-batch"} =>
    LET fileGiven == opts.file # ""
        jsonGiven == opts.json # <<>>
        input == IF fileGiven THEN ReadJson(fs, opts.file) ELSE JSONparse(opts.json)
    IN /\ (~fileGiven /\ ~jsonGiven) =>
            (NothingStarted /\ out = <<"No input provided. Use --file or --json option.">>)
       /\ ((fileGiven \/ jsonGiven) /\ ~input.ok) =>
            /\ NothingStarted /\ err = "input"
            /\ out = <<IF fileGiven THEN "Failed to read or parse file"
                                    ELSE "Failed to parse JSON string">>
       /\ ((fileGiven \/ jsonGiven) /\ input.ok) =>
            /\ err # "input"
            /\ (Called("validateAuthorization") \/ Called("validateAuthorizations")) =>
                 req = input.v

\* both options given, the string malformed: the request of the file is sent
C27_Witness ==
  /\ cmd = "authorize" /\ opts.file = RequestPath /\ opts.json = BadJson
  /\ Called("validateAuthorization") /\ pc = "done" /\ err = ""
  /\ req = JSONparse(fs[RequestPath].content).v

====
